---- MODULE Spec2Model ----
(***************************************************************************)
(* State-machine model of the scriptable text-adventure engine in          *)
(* src/zork_scriptable.py: the world model (GameItem, GameRoom, Player,    *)
(* GameState), the event bus (trigger_event, EventHandler.can_handle,      *)
(* ScriptHandler.handle), the command parser, the command dispatcher with  *)
(* its built-in commands, and the verb-object interaction system.          *)
(*                                                                         *)
(* Conventions.  A Python dict whose iteration order matters is a sequence *)
(* of <<key, value>> pairs with unique keys; other dicts are functions.    *)
(* A Python value of open type (flag value, property value, effect value)  *)
(* is a tagged record [t |-> type, v |-> value].  A command text is the    *)
(* sequence of its whitespace-separated tokens.  Items are referred to by  *)
(* their key in GameState.items, which stands for the object's identity.   *)
(* A script (the body of a ScriptHandler) is world data: it is modelled by *)
(* what the engine observes of it, whether it raises and which response it *)
(* leaves behind.  An operation is a function of the GameState gs; the     *)
(* record it returns carries, beside the new state, what the caller gets   *)
(* back, and gs.trace lists the events dispatched during the operation.    *)
(***************************************************************************)
EXTENDS Integers, Sequences, FiniteSets, TLC

\* The fields of GameState, and joined: how many player_joined events the bus
\* has dispatched for each address since the start
VARIABLES players, rooms, items, global_flags, event_handlers, starting_room, joined

vars == <<players, rooms, items, global_flags, event_handlers, starting_room, joined>>

-----------------------------------------------------------------------------
(* Python values *)

None == "None"

PyNone == [t |-> "none"]

PyBool(b) == [t |-> "bool", v |-> b]

PyInt(n) == [t |-> "int", v |-> n]

PyStr(s) == [t |-> "str", v |-> s]

PyDict(d) == [t |-> "dict", v |-> d]

\* bool(x)
Truthy(x) == CASE x.t = "none" -> FALSE [] x.t = "bool" -> x.v [] x.t = "int" -> x.v # 0 [] x.t = "str" -> x.v # "" [] x.t = "dict" -> x.v # <<>> [] OTHER -> TRUE

\* x == y; bool is a subtype of int in Python: True == 1 and False == 0
PyNum(x) == IF x.t = "bool" THEN (IF x.v THEN 1 ELSE 0) ELSE x.v

PyEq(x, y) == IF x.t \in {"bool", "int"} /\ y.t \in {"bool", "int"} THEN PyNum(x) = PyNum(y) ELSE x = y

-----------------------------------------------------------------------------
(* Ordered dicts: sequences of <<key, value>> pairs *)

DictKeys(d) == [i \in 1..Len(d) |-> d[i][1]]

DictHas(d, k) == \E i \in 1..Len(d) : d[i][1] = k

DictGet(d, k) == d[CHOOSE i \in 1..Len(d) : d[i][1] = k][2]

\* d[k] = v: an existing key keeps its place, a new key is appended
DictSet(d, k, v) == IF DictHas(d, k) THEN [i \in 1..Len(d) |-> IF d[i][1] = k THEN <<k, v>> ELSE d[i]] ELSE Append(d, <<k, v>>)

\* A local variable: x = v, then the expression F of x
With(v, F(_)) == F(v)

\* f[k] = v on an unordered dict (a function)
FunSet(f, k, v) == [x \in DOMAIN f \cup {k} |-> IF x = k THEN v ELSE f[x]]

-----------------------------------------------------------------------------
(* Strings and lists *)

\* str.lower() on the strings that occur in the worlds and commands below
Lower(s) == CASE s = "NORTH" -> "north" [] s = "Key" -> "key" [] s = "TAKE" -> "take" [] s = "Brass Lamp" -> "brass lamp" [] OTHER -> s

RECURSIVE JoinWith(_, _)
\* sep.join(parts)
JoinWith(sep, parts) == IF parts = <<>> THEN "" ELSE IF Len(parts) = 1 THEN parts[1] ELSE parts[1] \o sep \o JoinWith(sep, Tail(parts))

\* s.startswith(p)
StartsWith(s, p) == Len(s) >= Len(p) /\ SubSeq(s, 1, Len(p)) = p

\* list(filter(pred, xs)) for the predicate "x is a non-empty string"
NonEmpty(xs) == SelectSeq(xs, LAMBDA x : x # "")

\* list.remove(x): the first occurrence goes
RemoveFirst(xs, x) == LET i == CHOOSE j \in 1..Len(xs) : xs[j] = x /\ \A k \in 1..(j - 1) : xs[k] # x IN SubSeq(xs, 1, i - 1) \o SubSeq(xs, i + 1, Len(xs))

InSeq(xs, x) == \E i \in 1..Len(xs) : xs[i] = x

-----------------------------------------------------------------------------
(* World model.  gs is the GameState threaded through an operation: the    *)
(* record of the variables players, rooms, items, global_flags,            *)
(* event_handlers, starting_room, with the observations trace and joined.  *)

\* Player.__init__ : max_inventory
DefaultMaxInventory == 10

\* GameItem.matches
ItemMatches(item, text) == Lower(text) \in ({Lower(item.name)} \cup {Lower(item.aliases[i]) : i \in 1..Len(item.aliases)})

\* The first item of a container (a list of item keys) that matches, or None
FirstMatch(gs, container, item_name) == IF \E i \in 1..Len(container) : ItemMatches(gs.items[container[i]], item_name) THEN container[CHOOSE i \in 1..Len(container) : ItemMatches(gs.items[container[i]], item_name) /\ \A k \in 1..(i - 1) : ~ItemMatches(gs.items[container[k]], item_name)] ELSE None

\* GameRoom.get_item
RoomGetItem(gs, room_id, item_name) == FirstMatch(gs, gs.rooms[room_id].items, item_name)

\* Player.get_item
PlayerGetItem(gs, address, item_name) == FirstMatch(gs, gs.players[address].inventory, item_name)

\* Player.has_item
PlayerHasItem(gs, address, item_name) == PlayerGetItem(gs, address, item_name) # None

\* A room whose remove_item leaves the list as it is (the engine's removes
\* the item)
RoomRemoveItemNot(gs, room_id, item) == gs

\* GameRoom.remove_item
RoomRemoveItem(gs, room_id, item) == IF InSeq(gs.rooms[room_id].items, item) THEN [gs EXCEPT !.rooms[room_id].items = RemoveFirst(@, item)] ELSE gs

\* A room whose add_item forgets the item (the engine's does not)
RoomAddItemNowhere(gs, room_id, item) == gs

\* GameRoom.add_item
RoomAddItem(gs, room_id, item) == [gs EXCEPT !.rooms[room_id].items = Append(@, item)]

\* Player.add_item
PlayerAddItem(gs, address, item) == IF Len(gs.players[address].inventory) < gs.players[address].max_inventory THEN [gs EXCEPT !.players[address].inventory = Append(@, item)] ELSE gs

\* A remove_item that leaves the inventory as it is (the player's removes the item)
PlayerRemoveItemNot(gs, address, item) == gs

\* Player.remove_item
PlayerRemoveItem(gs, address, item) == IF InSeq(gs.players[address].inventory, item) THEN [gs EXCEPT !.players[address].inventory = RemoveFirst(@, item)] ELSE gs

\* Player.__init__, with get_player's assignment of the configured starting room
NewPlayer(room_id) == [current_room |-> room_id, inventory |-> <<>>, max_inventory |-> DefaultMaxInventory, score |-> 0, moves |-> 0, properties |-> <<>>]

\* GameState.get_room(room_id) is not None
HasRoom(gs, room_id) == room_id \in DOMAIN gs.rooms

\* A get_flag that finds every flag set (the engine's does not)
GetFlagSet(gs, flag_name) == PyBool(TRUE)

\* GameState.get_flag
GetFlag(gs, flag_name) == IF flag_name \in DOMAIN gs.global_flags THEN gs.global_flags[flag_name] ELSE PyBool(FALSE)

\* GameEvent.__init__
GameEvent(event_type, data) == [event_type |-> event_type, data |-> data]

\* event.data.get('player_address')
EventAddress(event) == IF "player_address" \in DOMAIN event.data THEN event.data.player_address ELSE None

-----------------------------------------------------------------------------
(* Event bus *)

\* What a consulted handler saw: the event's player (when it exists) and the set flags
Seen(gs, address) == [room |-> IF address \in DOMAIN gs.players THEN gs.players[address].current_room ELSE None, inv |-> IF address \in DOMAIN gs.players THEN gs.players[address].inventory ELSE <<>>, flags |-> {f \in DOMAIN gs.global_flags : Truthy(gs.global_flags[f])}]

RECURSIVE GetPlayer(_, _), TriggerEvent(_, _), ConsultHandlers(_, _, _, _, _), ConsultFirst(_, _, _, _, _), CanHandle(_, _, _), Handle(_, _, _)

\* A get_player that creates the Player without announcing it (the engine's
\* emits player_joined)
GetPlayerQuiet(gs, address) == IF address \in DOMAIN gs.players THEN gs ELSE [gs EXCEPT !.players = FunSet(@, address, NewPlayer(gs.starting_room))]

\* GameState.get_player: the Player of an address, created on first use
GetPlayer(gs, address) ==
    IF address \in DOMAIN gs.players THEN gs
    ELSE TriggerEvent([gs EXCEPT !.players = FunSet(@, address, NewPlayer(gs.starting_room))], GameEvent("player_joined", [player_address |-> address])).gs

\* EventHandler.can_handle: the conditions in the order the code tests them
CanHandle(gs, handler, event) ==
    LET c == handler.conditions
        address == EventAddress(event)
    IN  IF "event_type" \in DOMAIN c /\ event.event_type # c.event_type THEN [gs |-> gs, ok |-> FALSE]
        ELSE With(IF "player_has_item" \in DOMAIN c THEN GetPlayer(gs, address) ELSE gs, LAMBDA g1 :
             IF "player_has_item" \in DOMAIN c /\ ~PlayerHasItem(g1, address, c.player_has_item) THEN [gs |-> g1, ok |-> FALSE]
             ELSE With(IF "player_in_room" \in DOMAIN c THEN GetPlayer(g1, address) ELSE g1, LAMBDA g2 :
                  IF "player_in_room" \in DOMAIN c /\ g2.players[address].current_room # c.player_in_room THEN [gs |-> g2, ok |-> FALSE]
                  ELSE IF "flag_set" \in DOMAIN c /\ ~Truthy(GetFlag(g2, c.flag_set)) THEN [gs |-> g2, ok |-> FALSE]
                  ELSE [gs |-> g2, ok |-> TRUE]))

\* A handle that gives no response when the script raises (the handler's
\* gives the fixed text)
HandleSilent(gs, handler, event) == [gs |-> GetPlayer(gs, EventAddress(event)), response |-> IF handler.script.raises THEN "" ELSE IF "response" \in DOMAIN handler.script THEN handler.script.response ELSE "Script executed."]

\* ScriptHandler.handle: the script's player is looked up first; a script that
\* raises gives the fixed text, one that sets no response gives "Script executed."
Handle(gs, handler, event) == [gs |-> GetPlayer(gs, EventAddress(event)), response |-> IF handler.script.raises THEN "Something mysterious happens..." ELSE IF "response" \in DOMAIN handler.script THEN handler.script.response ELSE "Script executed."]

\* A handler loop that stops at the first handler that fires (the engine's
\* goes on to the end of the list)
ConsultFirst(gs, hs, scope, event, acc) ==
    IF hs = <<>> THEN [gs |-> gs, acc |-> acc]
    ELSE With(CanHandle(gs, Head(hs), event), LAMBDA can :
         With(IF can.ok THEN Handle(can.gs, Head(hs), event) ELSE [gs |-> can.gs, response |-> ""], LAMBDA run :
         With(Seen(can.gs, EventAddress(event)), LAMBDA seen :
         With([responses |-> IF run.response # "" THEN Append(acc.responses, run.response) ELSE acc.responses, consulted |-> Append(acc.consulted, [id |-> Head(hs).id, scope |-> scope, fired |-> can.ok, response |-> run.response, room |-> seen.room, inv |-> seen.inv, flags |-> seen.flags])], LAMBDA next :
             IF can.ok THEN [gs |-> run.gs, acc |-> next] ELSE ConsultFirst(run.gs, Tail(hs), scope, event, next)))))

\* One handler loop of trigger_event over the list hs of scope `scope`
ConsultHandlers(gs, hs, scope, event, acc) ==
    IF hs = <<>> THEN [gs |-> gs, acc |-> acc]
    ELSE With(CanHandle(gs, Head(hs), event), LAMBDA can :
         With(IF can.ok THEN Handle(can.gs, Head(hs), event) ELSE [gs |-> can.gs, response |-> ""], LAMBDA run :
         With(Seen(can.gs, EventAddress(event)), LAMBDA seen :
             ConsultHandlers(run.gs, Tail(hs), scope, event, [responses |-> IF run.response # "" THEN Append(acc.responses, run.response) ELSE acc.responses, consulted |-> Append(acc.consulted, [id |-> Head(hs).id, scope |-> scope, fired |-> can.ok, response |-> run.response, room |-> seen.room, inv |-> seen.inv, flags |-> seen.flags])]))))

\* A trigger_event whose room loop goes on to the first handler of every item
\* lying in the room (the state's stops at the room's own handlers)
TriggerEventReaching(gs, event) ==
    LET hasAddress == "player_address" \in DOMAIN event.data
        Having(g, list) == SelectSeq(list, LAMBDA i : g.items[i].event_handlers # <<>>)
        Flat(g, list) == [k \in 1..Len(Having(g, list)) |-> g.items[Having(g, list)[k]].event_handlers[1]]
    IN  With(ConsultHandlers(gs, gs.event_handlers, "global", event, [responses |-> <<>>, consulted |-> <<>>]), LAMBDA g :
        With(IF hasAddress THEN GetPlayer(g.gs, event.data.player_address) ELSE g.gs, LAMBDA g1 :
        With(IF hasAddress THEN g1.players[event.data.player_address].current_room ELSE None, LAMBDA room_id :
        With(IF hasAddress /\ HasRoom(g1, room_id) THEN ConsultHandlers(g1, g1.rooms[room_id].event_handlers \o Flat(g1, g1.rooms[room_id].items), room_id, event, g.acc) ELSE [gs |-> g1, acc |-> g.acc], LAMBDA r :
        With([event_type |-> event.event_type, data |-> event.data, started |-> Len(gs.trace), room |-> room_id, consulted |-> r.acc.consulted, responses |-> r.acc.responses], LAMBDA entry :
        With(IF event.event_type = "player_joined" THEN FunSet(r.gs.joined, event.data.player_address, (IF event.data.player_address \in DOMAIN r.gs.joined THEN r.gs.joined[event.data.player_address] ELSE 0) + 1) ELSE r.gs.joined, LAMBDA count :
            [gs |-> [r.gs EXCEPT !.trace = Append(@, entry), !.joined = count], responses |-> r.acc.responses]))))))

\* GameState.trigger_event.  The entry added to gs.trace when the dispatch ends
\* carries, as started, how many dispatches had ended when this one began
TriggerEvent(gs, event) ==
    LET hasAddress == "player_address" \in DOMAIN event.data
    IN  With(ConsultHandlers(gs, gs.event_handlers, "global", event, [responses |-> <<>>, consulted |-> <<>>]), LAMBDA g :
        With(IF hasAddress THEN GetPlayer(g.gs, event.data.player_address) ELSE g.gs, LAMBDA g1 :
        With(IF hasAddress THEN g1.players[event.data.player_address].current_room ELSE None, LAMBDA room_id :
        With(IF hasAddress /\ HasRoom(g1, room_id) THEN ConsultHandlers(g1, g1.rooms[room_id].event_handlers, room_id, event, g.acc) ELSE [gs |-> g1, acc |-> g.acc], LAMBDA r :
        With([event_type |-> event.event_type, data |-> event.data, started |-> Len(gs.trace), room |-> room_id, consulted |-> r.acc.consulted, responses |-> r.acc.responses], LAMBDA entry :
        With(IF event.event_type = "player_joined" THEN FunSet(r.gs.joined, event.data.player_address, (IF event.data.player_address \in DOMAIN r.gs.joined THEN r.gs.joined[event.data.player_address] ELSE 0) + 1) ELSE r.gs.joined, LAMBDA count :
            [gs |-> [r.gs EXCEPT !.trace = Append(@, entry), !.joined = count], responses |-> r.acc.responses]))))))

\* A set_flag that stores nothing (the state's stores the value and announces
\* a change)
SetFlagDropped(gs, flag_name, value) == gs

\* GameState.set_flag
SetFlag(gs, flag_name, value) ==
    LET old_value == IF flag_name \in DOMAIN gs.global_flags THEN gs.global_flags[flag_name] ELSE PyNone
        g1 == [gs EXCEPT !.global_flags = FunSet(@, flag_name, value)]
    IN  IF ~PyEq(old_value, value) THEN TriggerEvent(g1, GameEvent("flag_changed", [flag_name |-> flag_name, old_value |-> old_value, new_value |-> value])).gs ELSE g1

-----------------------------------------------------------------------------
(* Command parser *)

\* GameEngine.__init__ : self.prepositions
Prepositions == {"at", "to", "on", "in", "into", "from", "with", "against", "upon", "onto", "under", "over", "through", "around", "behind", "beside", "near", "by", "across", "along", "above", "below", "within"}

\* parse_command_with_prepositions : special_combinations
SpecialCombinations == [put |-> {"in", "on", "into", "onto", "under"}, throw |-> {"at", "to"}, look |-> {"at", "in", "under", "behind"}, listen |-> {"to"}, talk |-> {"to", "with"}, give |-> {"to"}, show |-> {"to"}]

\* A parser that removes the prepositions whatever the verb (the engine's
\* keeps them all for a verb of special_combinations that has one of its own)
ParseCommandFiltering(text) ==
    LET parts == [i \in 1..Len(text) |-> Lower(text[i])]
    IN  IF parts = <<>> THEN [verb |-> None, args |-> <<>>]
        ELSE [verb |-> parts[1], args |-> SelectSeq(Tail(parts), LAMBDA word : word \notin Prepositions)]

\* GameEngine.parse_command_with_prepositions; text is command_text.split()
ParseCommandWithPrepositions(text) ==
    LET parts == [i \in 1..Len(text) |-> Lower(text[i])]
        verb == parts[1]
        remaining_words == Tail(parts)
    IN  IF parts = <<>> THEN [verb |-> None, args |-> <<>>]
        ELSE IF verb \in DOMAIN SpecialCombinations /\ Len(remaining_words) >= 2 /\ \E i \in 1..Len(remaining_words) : remaining_words[i] \in SpecialCombinations[verb] THEN [verb |-> verb, args |-> remaining_words]
        ELSE [verb |-> verb, args |-> SelectSeq(remaining_words, LAMBDA word : word \notin Prepositions)]

-----------------------------------------------------------------------------
(* Built-in commands.  A command returns [gs, raised, text]: the state it  *)
(* leaves, whether it ended by raising, and its response (the exception's  *)
(* message when it raised).                                                *)

Ret(gs, text) == [gs |-> gs, raised |-> FALSE, text |-> text]

Raise(gs, message) == [gs |-> gs, raised |-> TRUE, text |-> message]

\* The AttributeError of an attribute access on get_room's None
NoAttr(attribute) == "'NoneType' object has no attribute '" \o attribute \o "'"

CurrentRoom(gs, address) == gs.players[address].current_room

\* A cmd_look that does not mark the room as visited (the engine's does)
CmdLookUnmarked(gs, address, args) ==
    LET room_id == CurrentRoom(gs, address)
        room == gs.rooms[room_id]
        visible_items == SelectSeq(room.items, LAMBDA i : ~gs.items[i].hidden)
        listing == IF visible_items # <<>> THEN "\n\nYou can see:" \o JoinWith("", [i \in 1..Len(visible_items) |-> "\n  " \o gs.items[visible_items[i]].name]) ELSE ""
        exits == IF room.exits # <<>> THEN "\n\nExits: " \o JoinWith(", ", DictKeys(room.exits)) ELSE ""
        item_name == JoinWith(" ", args)
        in_room == RoomGetItem(gs, room_id, item_name)
        item == IF in_room # None THEN in_room ELSE PlayerGetItem(gs, address, item_name)
    IN  IF args = <<>> THEN
            IF ~HasRoom(gs, room_id) THEN Raise(gs, NoAttr("name"))
            ELSE Ret(TriggerEvent(gs, GameEvent("look_room", [player_address |-> address, room_id |-> room_id])).gs, room.name \o "\n" \o room.description \o listing \o exits)
        ELSE IF ~HasRoom(gs, room_id) THEN Raise(gs, NoAttr("get_item"))
        ELSE IF item # None THEN Ret(TriggerEvent(gs, GameEvent("examine_item", [player_address |-> address, item_name |-> gs.items[item].name, item |-> item])).gs, gs.items[item].description)
        ELSE Ret(gs, "You don't see any '" \o item_name \o "' here.")

\* GameEngine.cmd_look
CmdLook(gs, address, args) ==
    LET room_id == CurrentRoom(gs, address)
        room == gs.rooms[room_id]
        visible_items == SelectSeq(room.items, LAMBDA i : ~gs.items[i].hidden)
        listing == IF visible_items # <<>> THEN "\n\nYou can see:" \o JoinWith("", [i \in 1..Len(visible_items) |-> "\n  " \o gs.items[visible_items[i]].name]) ELSE ""
        exits == IF room.exits # <<>> THEN "\n\nExits: " \o JoinWith(", ", DictKeys(room.exits)) ELSE ""
        g1 == [gs EXCEPT !.rooms[room_id].visited = TRUE]
        item_name == JoinWith(" ", args)
        in_room == RoomGetItem(gs, room_id, item_name)
        item == IF in_room # None THEN in_room ELSE PlayerGetItem(gs, address, item_name)
    IN  IF args = <<>> THEN
            IF ~HasRoom(gs, room_id) THEN Raise(gs, NoAttr("name"))
            ELSE Ret(TriggerEvent(g1, GameEvent("look_room", [player_address |-> address, room_id |-> room_id])).gs, room.name \o "\n" \o room.description \o listing \o exits)
        ELSE IF ~HasRoom(gs, room_id) THEN Raise(gs, NoAttr("get_item"))
        ELSE IF item # None THEN Ret(TriggerEvent(gs, GameEvent("examine_item", [player_address |-> address, item_name |-> gs.items[item].name, item |-> item])).gs, gs.items[item].description)
        ELSE Ret(gs, "You don't see any '" \o item_name \o "' here.")

\* An inventory that never counts as full (the engine compares its length
\* with max_inventory)
NeverFull(gs, address) == FALSE

\* cmd_take : len(player.inventory) >= player.max_inventory
InventoryFull(gs, address) == Len(gs.players[address].inventory) >= gs.players[address].max_inventory

\* A take that leaves the item in the room's list as well (the engine removes it)
TakeItemKeeping(gs, address, room_id, item) == [PlayerAddItem(gs, address, item) EXCEPT !.players[address].score = @ + 5]

\* A take that moves the item and gives no points (the engine gives 5)
TakeItemUnscored(gs, address, room_id, item) == PlayerAddItem(RoomRemoveItem(gs, room_id, item), address, item)

\* cmd_take : the move of the item and the score
TakeItem(gs, address, room_id, item) == [PlayerAddItem(RoomRemoveItem(gs, room_id, item), address, item) EXCEPT !.players[address].score = @ + 5]

\* A cmd_take with neither capacity test, its own or add_item's (the engine
\* has both)
CmdTakeUnguarded(gs, address, args) ==
    LET item_name == JoinWith(" ", args)
        room_id == CurrentRoom(gs, address)
        item == RoomGetItem(gs, room_id, item_name)
        g1 == [RoomRemoveItem(gs, room_id, item) EXCEPT !.players[address].inventory = Append(@, item), !.players[address].score = @ + 5]
    IN  IF args = <<>> THEN Ret(gs, "Take what?")
        ELSE IF ~HasRoom(gs, room_id) THEN Raise(gs, NoAttr("get_item"))
        ELSE IF item = None THEN Ret(gs, "There is no '" \o item_name \o "' here.")
        ELSE IF ~gs.items[item].can_take THEN Ret(gs, "You can't take the " \o gs.items[item].name \o ".")
        ELSE Ret(TriggerEvent(g1, GameEvent("item_taken", [player_address |-> address, item_name |-> gs.items[item].name, item |-> item])).gs, "Taken: " \o gs.items[item].name \o ".")

\* A cmd_take that does not look at can_take (the engine refuses such items)
CmdTakeAnything(gs, address, args) ==
    LET item_name == JoinWith(" ", args)
        room_id == CurrentRoom(gs, address)
        item == RoomGetItem(gs, room_id, item_name)
    IN  IF args = <<>> THEN Ret(gs, "Take what?")
        ELSE IF ~HasRoom(gs, room_id) THEN Raise(gs, NoAttr("get_item"))
        ELSE IF item = None THEN Ret(gs, "There is no '" \o item_name \o "' here.")
        ELSE IF InventoryFull(gs, address) THEN Ret(gs, "Your inventory is full!")
        ELSE Ret(TriggerEvent(TakeItem(gs, address, room_id, item), GameEvent("item_taken", [player_address |-> address, item_name |-> gs.items[item].name, item |-> item])).gs, "Taken: " \o gs.items[item].name \o ".")

\* GameEngine.cmd_take
CmdTake(gs, address, args) ==
    LET item_name == JoinWith(" ", args)
        room_id == CurrentRoom(gs, address)
        item == RoomGetItem(gs, room_id, item_name)
    IN  IF args = <<>> THEN Ret(gs, "Take what?")
        ELSE IF ~HasRoom(gs, room_id) THEN Raise(gs, NoAttr("get_item"))
        ELSE IF item = None THEN Ret(gs, "There is no '" \o item_name \o "' here.")
        ELSE IF ~gs.items[item].can_take THEN Ret(gs, "You can't take the " \o gs.items[item].name \o ".")
        ELSE IF InventoryFull(gs, address) THEN Ret(gs, "Your inventory is full!")
        ELSE Ret(TriggerEvent(TakeItem(gs, address, room_id, item), GameEvent("item_taken", [player_address |-> address, item_name |-> gs.items[item].name, item |-> item])).gs, "Taken: " \o gs.items[item].name \o ".")

\* cmd_drop : the move of the item; in a room that does not exist the item has
\* left the inventory when add_item fails
DropItem(gs, address, room_id, item) == IF HasRoom(gs, room_id) THEN RoomAddItem(PlayerRemoveItem(gs, address, item), room_id, item) ELSE PlayerRemoveItem(gs, address, item)

\* GameEngine.cmd_drop
CmdDrop(gs, address, args) ==
    LET item_name == JoinWith(" ", args)
        item == PlayerGetItem(gs, address, item_name)
        room_id == CurrentRoom(gs, address)
        g1 == DropItem(gs, address, room_id, item)
    IN  IF args = <<>> THEN Ret(gs, "Drop what?")
        ELSE IF item = None THEN Ret(gs, "You don't have any '" \o item_name \o "'.")
        ELSE IF ~HasRoom(gs, room_id) THEN Raise(g1, NoAttr("add_item"))
        ELSE Ret(TriggerEvent(g1, GameEvent("item_dropped", [player_address |-> address, item_name |-> gs.items[item].name, item |-> item])).gs, "Dropped: " \o gs.items[item].name \o ".")

\* A cmd_go that takes no response for a block (the engine looks for the prefix)
NoBlocking(event_responses) == <<>>

\* cmd_go : the responses that begin with the block prefix
Blocking(event_responses) == SelectSeq(event_responses, LAMBDA r : StartsWith(r, "BLOCK:"))

\* A room update that does not count the move (the engine adds 1 to moves)
MovePlayerUncounted(gs, address, new_room_key) == [gs EXCEPT !.players[address].current_room = new_room_key]

\* cmd_go : the room update
MovePlayer(gs, address, new_room_key) == [gs EXCEPT !.players[address].current_room = new_room_key, !.players[address].moves = @ + 1]

\* GameEngine.cmd_go
CmdGo(gs, address, args) ==
    LET direction == Lower(args[1])
        old_room == CurrentRoom(gs, address)
    IN  IF args = <<>> THEN Ret(gs, "Go where?")
        ELSE With(TriggerEvent(gs, GameEvent("attempt_move", [player_address |-> address, direction |-> direction, from_room |-> old_room])), LAMBDA attempt :
             With(Blocking(attempt.responses), LAMBDA blocking :
             IF blocking # <<>> THEN Ret(attempt.gs, SubSeq(blocking[1], 7, Len(blocking[1])))
             ELSE IF ~HasRoom(attempt.gs, old_room) THEN Raise(attempt.gs, NoAttr("exits"))
             ELSE IF ~DictHas(attempt.gs.rooms[old_room].exits, direction) THEN Ret(attempt.gs, "You can't go " \o direction \o " from here.")
             ELSE With(DictGet(attempt.gs.rooms[old_room].exits, direction), LAMBDA new_room_key :
                  With(TriggerEvent(MovePlayer(attempt.gs, address, new_room_key), GameEvent("player_moved", [player_address |-> address, from_room |-> old_room, to_room |-> new_room_key, direction |-> direction])).gs, LAMBDA moved :
                  With(CmdLook(moved, address, <<>>), LAMBDA look :
                      IF look.raised THEN look
                      ELSE IF attempt.responses # <<>> THEN Ret(look.gs, JoinWith("\n\n", Append(attempt.responses, look.text)))
                      ELSE look)))))

\* GameEngine.cmd_inventory
CmdInventory(gs, address, args) ==
    LET inventory == gs.players[address].inventory
    IN  IF inventory = <<>> THEN Ret(gs, "You are carrying nothing.")
        ELSE Ret(gs, "You are carrying:" \o JoinWith("", [i \in 1..Len(inventory) |-> "\n  " \o gs.items[inventory[i]].name]))

\* GameEngine.cmd_examine
CmdExamine(gs, address, args) == CmdLook(gs, address, args)

\* The index of the first token of args that the text ' '.join(args) shows as
\* " word " (a token with a token on either side), or 0
SplitAt(args, word) == IF \E i \in 2..(Len(args) - 1) : args[i] = word THEN CHOOSE i \in 2..(Len(args) - 1) : args[i] = word /\ \A k \in 2..(i - 1) : args[k] # word ELSE 0

\* GameEngine.cmd_use
CmdUse(gs, address, args) ==
    LET at == IF SplitAt(args, "on") # 0 THEN SplitAt(args, "on") ELSE SplitAt(args, "with")
        item1_name == IF at # 0 THEN JoinWith(" ", SubSeq(args, 1, at - 1)) ELSE JoinWith(" ", args)
        item2_name == IF at # 0 THEN JoinWith(" ", SubSeq(args, at + 1, Len(args))) ELSE None
        item1 == PlayerGetItem(gs, address, item1_name)
        room_id == CurrentRoom(gs, address)
        in_room == RoomGetItem(gs, room_id, item2_name)
        item2 == IF in_room # None THEN in_room ELSE PlayerGetItem(gs, address, item2_name)
        event_data == IF at # 0 THEN [player_address |-> address, item1_name |-> gs.items[item1].name, item1 |-> item1, item2_name |-> gs.items[item2].name, item2 |-> item2] ELSE [player_address |-> address, item1_name |-> gs.items[item1].name, item1 |-> item1]
    IN  IF args = <<>> THEN Ret(gs, "Use what?")
        ELSE IF item1 = None THEN Ret(gs, "You don't have any '" \o item1_name \o "'.")
        ELSE IF at # 0 /\ ~HasRoom(gs, room_id) THEN Raise(gs, NoAttr("get_item"))
        ELSE IF at # 0 /\ item2 = None THEN Ret(gs, "You don't see any '" \o item2_name \o "' here.")
        ELSE With(TriggerEvent(gs, GameEvent("use_item", event_data)), LAMBDA used :
             IF used.responses # <<>> THEN Ret(used.gs, JoinWith("\n", used.responses))
             ELSE IF at # 0 THEN Ret(used.gs, "You can't use the " \o gs.items[item1].name \o " with the " \o gs.items[item2].name \o ".")
             ELSE Ret(used.gs, "You can't use the " \o gs.items[item1].name \o " here."))

\* str.capitalize() on the verbs of the engine
Capitalize(verb) == CASE verb = "unlock" -> "Unlock" [] verb = "open" -> "Open" [] verb = "close" -> "Close" [] verb = "push" -> "Push" [] verb = "pull" -> "Pull" [] verb = "throw" -> "Throw" [] verb = "break" -> "Break" [] verb = "shake" -> "Shake" [] verb = "turn" -> "Turn" [] verb = "move_object" -> "Move_object" [] verb = "read" -> "Read" [] verb = "listen" -> "Listen" [] verb = "smell" -> "Smell" [] verb = "taste" -> "Taste" [] verb = "touch" -> "Touch" [] verb = "cut" -> "Cut" [] verb = "dig" -> "Dig" [] verb = "light" -> "Light" [] verb = "extinguish" -> "Extinguish" [] verb = "cast" -> "Cast" [] verb = "enchant" -> "Enchant" [] verb = "bless" -> "Bless" [] verb = "curse" -> "Curse" [] verb = "talk" -> "Talk" [] verb = "ask" -> "Ask" [] verb = "tell" -> "Tell" [] verb = "show" -> "Show" [] OTHER -> verb

\* cmd_unlock, cmd_open, cmd_close: one body, the verb in the texts and the event
AttemptOn(gs, address, args, verb) ==
    LET target_name == JoinWith(" ", args)
        room_id == CurrentRoom(gs, address)
        target == RoomGetItem(gs, room_id, target_name)
    IN  IF args = <<>> THEN Ret(gs, Capitalize(verb) \o " what?")
        ELSE IF ~HasRoom(gs, room_id) THEN Raise(gs, NoAttr("get_item"))
        ELSE IF target = None THEN Ret(gs, "There is no '" \o target_name \o "' here to " \o verb \o ".")
        ELSE With(TriggerEvent(gs, GameEvent(verb \o "_attempt", [player_address |-> address, target_name |-> gs.items[target].name, target |-> target])), LAMBDA attempt :
             IF attempt.responses # <<>> THEN Ret(attempt.gs, JoinWith("\n", attempt.responses))
             ELSE Ret(attempt.gs, "You can't " \o verb \o " the " \o gs.items[target].name \o "."))

\* GameEngine.cmd_unlock
CmdUnlock(gs, address, args) == AttemptOn(gs, address, args, "unlock")

\* GameEngine.cmd_open
CmdOpen(gs, address, args) == AttemptOn(gs, address, args, "open")

\* GameEngine.cmd_close
CmdClose(gs, address, args) == AttemptOn(gs, address, args, "close")

\* GameEngine.cmd_score
CmdScore(gs, address, args) == Ret(gs, "Score: " \o ToString(gs.players[address].score) \o " points\nMoves: " \o ToString(gs.players[address].moves) \o "\nItems carried: " \o ToString(Len(gs.players[address].inventory)) \o "/" \o ToString(gs.players[address].max_inventory))

\* GameEngine.cmd_help
CmdHelp(gs, address, args) == Ret(gs, "Available commands:\nlook [at item] - Look around or examine an item\ntake <item> - Take an item  \ndrop <item> - Drop an item from your inventory\ngo <direction> - Move in a direction\ninventory (i) - Show your inventory\nexamine <item> - Examine an item closely\nuse <item> [on/with <target>] - Use an item\nunlock <item> - Unlock something\nopen <item> - Open something\nclose <item> - Close something\nscore - Show your score and statistics\nhelp - Show this help message\nquit - Quit the game\n\nNatural language examples:\nlook at chest, listen to door, throw sword at monster\nread scroll, light lantern, push boulder, cast spell\n\nVerb actions: read, listen, smell, taste, touch, push, pull, \nthrow, break, shake, turn, move_object, light, extinguish, \ncast, enchant\n\nAbbreviations: l (look), t (take), d (drop), i (inventory), x (examine), u (use)")

\* A cmd_quit that ends the game for the player: the Player is removed (the
\* engine's only answers)
CmdQuitLeaving(gs, address, args) == Ret([gs EXCEPT !.players = [b \in DOMAIN gs.players \ {address} |-> gs.players[b]]], "Thanks for playing! Final score: " \o ToString(gs.players[address].score) \o " points in " \o ToString(gs.players[address].moves) \o " moves.")

\* GameEngine.cmd_quit
CmdQuit(gs, address, args) == Ret(gs, "Thanks for playing! Final score: " \o ToString(gs.players[address].score) \o " points in " \o ToString(gs.players[address].moves) \o " moves.")

-----------------------------------------------------------------------------
(* Verb-object interaction system.  An interaction definition is a record  *)
(* with the optional fields requires (a list of strings), effects (an      *)
(* ordered dict of effect type to value), response and failure_response.   *)

\* The index of the first character ch of s, or 0
IndexOf(s, ch) == IF \E i \in 1..Len(s) : SubSeq(s, i, i) = ch THEN CHOOSE i \in 1..Len(s) : SubSeq(s, i, i) = ch /\ \A k \in 1..(i - 1) : SubSeq(s, k, k) # ch ELSE 0

\* s[n:]
From(s, n) == SubSeq(s, n + 1, Len(s))

RECURSIVE Replace(_, _, _)
\* str.replace(old, new)
Replace(s, old, new) == IF Len(s) < Len(old) THEN s ELSE IF SubSeq(s, 1, Len(old)) = old THEN new \o Replace(SubSeq(s, Len(old) + 1, Len(s)), old, new) ELSE SubSeq(s, 1, 1) \o Replace(SubSeq(s, 2, Len(s)), old, new)

\* Player.get_property
PlayerGetProperty(gs, address, prop_name) == IF prop_name \in DOMAIN gs.players[address].properties THEN gs.players[address].properties[prop_name] ELSE PyNone

\* GameEngine.check_requirement, as the truth value its caller tests
CheckRequirement(gs, address, requirement) ==
    LET prop_check == From(requirement, 9)
        eq == IndexOf(prop_check, "=")
    IN  IF StartsWith(requirement, "flag:") THEN Truthy(GetFlag(gs, From(requirement, 5)))
        ELSE IF StartsWith(requirement, "item:") THEN PlayerHasItem(gs, address, From(requirement, 5))
        ELSE IF StartsWith(requirement, "in_room:") THEN CurrentRoom(gs, address) = From(requirement, 8)
        ELSE IF StartsWith(requirement, "property:") THEN
            IF eq # 0 THEN PyEq(PlayerGetProperty(gs, address, SubSeq(prop_check, 1, eq - 1)), PyStr(From(prop_check, eq)))
            ELSE Truthy(PlayerGetProperty(gs, address, prop_check))
        ELSE Truthy(GetFlag(gs, requirement))

RECURSIVE SetFlags(_, _)
\* apply_verb_effects : for flag_name, flag_value in effect_value.items()
SetFlags(gs, pairs) == IF pairs = <<>> THEN gs ELSE SetFlags(SetFlag(gs, Head(pairs)[1], Head(pairs)[2]), Tail(pairs))

\* A set_property that reaches every player (the effect sets the property of
\* the player of the command)
SetPlayerPropertiesAll(gs, address, pairs) == IF pairs = <<>> THEN gs ELSE [gs EXCEPT !.players = [b \in DOMAIN gs.players |-> [gs.players[b] EXCEPT !.properties = FunSet(@, Head(pairs)[1], Head(pairs)[2])]]]

RECURSIVE SetPlayerProperties(_, _, _)
\* apply_verb_effects : player.set_property for each pair
SetPlayerProperties(gs, address, pairs) == IF pairs = <<>> THEN gs ELSE SetPlayerProperties([gs EXCEPT !.players[address].properties = FunSet(@, Head(pairs)[1], Head(pairs)[2])], address, Tail(pairs))

RECURSIVE SetItemProperties(_, _, _)
\* apply_verb_effects : target.set_property for each pair
SetItemProperties(gs, target, pairs) == IF pairs = <<>> THEN gs ELSE SetItemProperties([gs EXCEPT !.items[target].properties = FunSet(@, Head(pairs)[1], Head(pairs)[2])], target, Tail(pairs))

\* dict.get(key) on an effect value that is a dict
ValueGet(value, key) == IF DictHas(value.v, key) THEN DictGet(value.v, key) ELSE PyNone

\* An effect step whose teleport_to counts as a move (the engine's changes
\* current_room alone)
ApplyEffectCounting(gs, address, room_id, target, location, effect_type, effect_value) ==
    IF effect_type = "teleport_to" /\ effect_value.t = "str" /\ effect_value.v \in DOMAIN gs.rooms THEN [gs EXCEPT !.players[address].current_room = effect_value.v, !.players[address].moves = @ + 1]
    ELSE gs

\* An effect step whose add_room_exit leaves the room with the new exit alone
\* (the engine's adds the exit to those the room has)
ApplyEffectExitAlone(gs, address, room_id, target, location, effect_type, effect_value) ==
    IF effect_type = "add_room_exit" /\ effect_value.t = "dict" THEN [gs EXCEPT !.rooms[room_id].exits = <<<<ValueGet(effect_value, "direction").v, ValueGet(effect_value, "to_room").v>>>>]
    ELSE gs

\* apply_verb_effects : one effect; current_room is the room the loop started in
ApplyEffect(gs, address, room_id, target, location, effect_type, effect_value) ==
    CASE effect_type = "score" -> [gs EXCEPT !.players[address].score = @ + PyNum(effect_value)]
      [] effect_type = "remove_item" ->
            IF Truthy(effect_value) /\ location = "inventory" THEN PlayerRemoveItem(gs, address, target)
            ELSE IF Truthy(effect_value) /\ location = "room" THEN RoomRemoveItem(gs, room_id, target)
            ELSE gs
      [] effect_type = "move_item_to_room" ->
            IF Truthy(effect_value) /\ location = "inventory" THEN RoomAddItem(PlayerRemoveItem(gs, address, target), room_id, target)
            ELSE gs
      [] effect_type = "add_room_exit" ->
            IF effect_value.t = "dict" /\ Truthy(ValueGet(effect_value, "direction")) /\ Truthy(ValueGet(effect_value, "to_room")) THEN [gs EXCEPT !.rooms[room_id].exits = DictSet(@, ValueGet(effect_value, "direction").v, ValueGet(effect_value, "to_room").v)]
            ELSE gs
      [] effect_type = "set_flag" ->
            IF effect_value.t = "dict" THEN SetFlags(gs, effect_value.v)
            ELSE SetFlag(gs, effect_value.v, PyBool(TRUE))
      [] effect_type = "set_player_property" ->
            IF effect_value.t = "dict" THEN SetPlayerProperties(gs, address, effect_value.v) ELSE gs
      [] effect_type = "set_item_property" ->
            IF effect_value.t = "dict" THEN SetItemProperties(gs, target, effect_value.v) ELSE gs
      [] effect_type = "teleport_to" ->
            IF effect_value.t = "str" /\ effect_value.v \in DOMAIN gs.rooms THEN [gs EXCEPT !.players[address].current_room = effect_value.v] ELSE gs
      [] OTHER -> gs

RECURSIVE ApplyEffects(_, _, _, _, _, _)
\* apply_verb_effects : the loop over effects.items()
ApplyEffects(gs, address, room_id, target, location, effects) == IF effects = <<>> THEN gs ELSE ApplyEffects(ApplyEffect(gs, address, room_id, target, location, Head(effects)[1], Head(effects)[2]), address, room_id, target, location, Tail(effects))

\* GameEngine.apply_verb_effects
ApplyVerbEffects(gs, address, target, effects, location) == ApplyEffects(gs, address, CurrentRoom(gs, address), target, location, effects)

\* A process_verb_interaction that applies the effects before it looks at the
\* requirements (the engine's applies them after all requirements held)
ProcessVerbInteractionEager(gs, address, target, verb, location) ==
    LET interaction == IF verb \in DOMAIN gs.items[target].verb_interactions THEN gs.items[target].verb_interactions[verb] ELSE <<>>
        name == gs.items[target].name
        requirements == IF "requires" \in DOMAIN interaction THEN interaction.requires ELSE <<>>
        effects == IF "effects" \in DOMAIN interaction THEN interaction.effects ELSE <<>>
        template == IF "response" \in DOMAIN interaction THEN interaction.response ELSE "You " \o verb \o " the " \o name \o "."
    IN  IF DOMAIN interaction = {} THEN Ret(gs, "You can't " \o verb \o " the " \o name \o ".")
        ELSE IF \E i \in 1..Len(requirements) : ~CheckRequirement(gs, address, requirements[i]) THEN Ret(ApplyVerbEffects(gs, address, target, effects, location), IF "failure_response" \in DOMAIN interaction THEN interaction.failure_response ELSE "You can't " \o verb \o " the " \o name \o " right now.")
        ELSE Ret(ApplyVerbEffects(gs, address, target, effects, location), Replace(Replace(template, "{item_name}", name), "{player_name}", "you"))

\* GameEngine.process_verb_interaction
ProcessVerbInteraction(gs, address, target, verb, location) ==
    LET interaction == IF verb \in DOMAIN gs.items[target].verb_interactions THEN gs.items[target].verb_interactions[verb] ELSE <<>>
        name == gs.items[target].name
        requirements == IF "requires" \in DOMAIN interaction THEN interaction.requires ELSE <<>>
        effects == IF "effects" \in DOMAIN interaction THEN interaction.effects ELSE <<>>
        template == IF "response" \in DOMAIN interaction THEN interaction.response ELSE "You " \o verb \o " the " \o name \o "."
    IN  IF DOMAIN interaction = {} THEN Ret(gs, "You can't " \o verb \o " the " \o name \o ".")
        ELSE IF \E i \in 1..Len(requirements) : ~CheckRequirement(gs, address, requirements[i]) THEN Ret(gs, IF "failure_response" \in DOMAIN interaction THEN interaction.failure_response ELSE "You can't " \o verb \o " the " \o name \o " right now.")
        ELSE Ret(ApplyVerbEffects(gs, address, target, effects, location), Replace(Replace(template, "{item_name}", name), "{player_name}", "you"))

\* A cmd_verb_object that looks in the inventory before the room (the engine's
\* looks in the room first)
CmdVerbObjectHeldFirst(gs, address, verb, args) ==
    LET target_name == JoinWith(" ", args)
        room_id == CurrentRoom(gs, address)
        held == PlayerGetItem(gs, address, target_name)
        target == IF held # None THEN held ELSE RoomGetItem(gs, room_id, target_name)
        location == IF held # None THEN "inventory" ELSE "room"
    IN  IF args = <<>> THEN Ret(gs, Capitalize(verb) \o " what?")
        ELSE IF ~HasRoom(gs, room_id) THEN Raise(gs, NoAttr("get_item"))
        ELSE IF target = None THEN Ret(gs, "There is no '" \o target_name \o "' here.")
        ELSE IF verb \notin DOMAIN gs.items[target].verb_interactions THEN Ret(gs, "You can't " \o verb \o " the " \o gs.items[target].name \o ".")
        ELSE ProcessVerbInteraction(gs, address, target, verb, location)

\* GameEngine.cmd_verb_object
CmdVerbObject(gs, address, verb, args) ==
    LET target_name == JoinWith(" ", args)
        room_id == CurrentRoom(gs, address)
        in_room == RoomGetItem(gs, room_id, target_name)
        target == IF in_room # None THEN in_room ELSE PlayerGetItem(gs, address, target_name)
        location == IF in_room # None THEN "room" ELSE "inventory"
    IN  IF args = <<>> THEN Ret(gs, Capitalize(verb) \o " what?")
        ELSE IF ~HasRoom(gs, room_id) THEN Raise(gs, NoAttr("get_item"))
        ELSE IF target = None THEN Ret(gs, "There is no '" \o target_name \o "' here.")
        ELSE IF verb \notin DOMAIN gs.items[target].verb_interactions THEN Ret(gs, "You can't " \o verb \o " the " \o gs.items[target].name \o ".")
        ELSE ProcessVerbInteraction(gs, address, target, verb, location)

-----------------------------------------------------------------------------
(* Command dispatcher *)

\* GameEngine.__init__ : the keys of self.commands, by the method they name
LookVerbs == {"look", "l"}

TakeVerbs == {"take", "t", "get"}

DropVerbs == {"drop", "d"}

GoVerbs == {"go", "move"}

InventoryVerbs == {"inventory", "i"}

ExamineVerbs == {"examine", "x"}

UseVerbs == {"use", "u"}

HelpVerbs == {"help", "?"}

QuitVerbs == {"quit", "exit"}

BuiltinVerbs == LookVerbs \cup TakeVerbs \cup DropVerbs \cup GoVerbs \cup InventoryVerbs \cup ExamineVerbs \cup UseVerbs \cup HelpVerbs \cup QuitVerbs \cup {"unlock", "open", "close", "score"}

\* GameEngine.__init__ : self.object_verbs
ObjectVerbs == {"push", "pull", "throw", "break", "shake", "turn", "move_object", "read", "listen", "smell", "taste", "touch", "cut", "dig", "light", "extinguish", "cast", "enchant", "bless", "curse", "talk", "ask", "tell", "show"}

\* process_command : self.commands[verb](player, args)
Builtin(gs, address, verb, args) ==
    CASE verb \in LookVerbs -> CmdLook(gs, address, args)
      [] verb \in TakeVerbs -> CmdTake(gs, address, args)
      [] verb \in DropVerbs -> CmdDrop(gs, address, args)
      [] verb \in GoVerbs -> CmdGo(gs, address, args)
      [] verb \in InventoryVerbs -> CmdInventory(gs, address, args)
      [] verb \in ExamineVerbs -> CmdExamine(gs, address, args)
      [] verb \in UseVerbs -> CmdUse(gs, address, args)
      [] verb = "unlock" -> CmdUnlock(gs, address, args)
      [] verb = "open" -> CmdOpen(gs, address, args)
      [] verb = "close" -> CmdClose(gs, address, args)
      [] verb = "score" -> CmdScore(gs, address, args)
      [] verb \in HelpVerbs -> CmdHelp(gs, address, args)
      [] verb \in QuitVerbs -> CmdQuit(gs, address, args)

\* A dispatcher that hands an exception's message back as it is (the engine
\* reports it behind "Error processing ...")
CommandResponseRaw(gs, address, verb, args) ==
    IF verb \in BuiltinVerbs THEN Builtin(gs, address, verb, args)
    ELSE IF verb \in ObjectVerbs THEN CmdVerbObject(gs, address, verb, args)
    ELSE Ret(gs, "I don't understand '" \o verb \o "'. Type 'help' for available commands.")

\* process_command : the command's own response, an exception caught and reported
CommandResponse(gs, address, verb, args) ==
    IF verb \in BuiltinVerbs THEN With(Builtin(gs, address, verb, args), LAMBDA built : [gs |-> built.gs, raised |-> built.raised, text |-> IF built.raised THEN "Error processing command: " \o built.text ELSE built.text])
    ELSE IF verb \in ObjectVerbs THEN With(CmdVerbObject(gs, address, verb, args), LAMBDA object : [gs |-> object.gs, raised |-> object.raised, text |-> IF object.raised THEN "Error processing verb command: " \o object.text ELSE object.text])
    ELSE Ret(gs, "I don't understand '" \o verb \o "'. Type 'help' for available commands.")

\* A process_command that announces only the verbs it knows with a command
\* event (the engine announces every verb)
ProcessCommandKnown(gs, player_address, command_text) ==
    With(GetPlayer(gs, player_address), LAMBDA g1 :
    With(ParseCommandWithPrepositions(command_text), LAMBDA parsed :
        IF parsed.verb = None THEN [gs |-> g1, text |-> "Please enter a command. Type 'help' for available commands.", command_response |-> "", event_responses |-> <<>>, raised |-> FALSE]
        ELSE With(IF parsed.verb \in BuiltinVerbs \cup ObjectVerbs THEN TriggerEvent(g1, GameEvent("command", [player_address |-> player_address, verb |-> parsed.verb, args |-> parsed.args, full_command |-> command_text])) ELSE [gs |-> g1, responses |-> <<>>], LAMBDA event :
             With(CommandResponse(event.gs, player_address, parsed.verb, parsed.args), LAMBDA done :
                 [gs |-> done.gs, text |-> JoinWith("\n\n", NonEmpty(Append(event.responses, done.text))), command_response |-> done.text, event_responses |-> event.responses, raised |-> done.raised]))))

\* A process_command that puts the command's own response before the
\* responses to the command event (the engine puts it after them)
ProcessCommandResultFirst(gs, player_address, command_text) ==
    With(GetPlayer(gs, player_address), LAMBDA g1 :
    With(ParseCommandWithPrepositions(command_text), LAMBDA parsed :
        IF parsed.verb = None THEN [gs |-> g1, text |-> "Please enter a command. Type 'help' for available commands.", command_response |-> "", event_responses |-> <<>>, raised |-> FALSE]
        ELSE With(TriggerEvent(g1, GameEvent("command", [player_address |-> player_address, verb |-> parsed.verb, args |-> parsed.args, full_command |-> command_text])), LAMBDA event :
             With(CommandResponse(event.gs, player_address, parsed.verb, parsed.args), LAMBDA done :
                 [gs |-> done.gs, text |-> JoinWith("\n\n", NonEmpty(<<done.text>> \o event.responses)), command_response |-> done.text, event_responses |-> event.responses, raised |-> done.raised]))))

\* GameEngine.process_command; the result carries the response returned and,
\* as observations, the command response and the command event's responses
ProcessCommand(gs, player_address, command_text) ==
    With(GetPlayer(gs, player_address), LAMBDA g1 :
    With(ParseCommandWithPrepositions(command_text), LAMBDA parsed :
        IF parsed.verb = None THEN [gs |-> g1, text |-> "Please enter a command. Type 'help' for available commands.", command_response |-> "", event_responses |-> <<>>, raised |-> FALSE]
        ELSE With(TriggerEvent(g1, GameEvent("command", [player_address |-> player_address, verb |-> parsed.verb, args |-> parsed.args, full_command |-> command_text])), LAMBDA event :
             With(CommandResponse(event.gs, player_address, parsed.verb, parsed.args), LAMBDA done :
                 [gs |-> done.gs, text |-> JoinWith("\n\n", NonEmpty(Append(event.responses, done.text))), command_response |-> done.text, event_responses |-> event.responses, raised |-> done.raised]))))

-----------------------------------------------------------------------------
(* Worlds: the GameState that construction leaves *)

\* GameItem.__init__
GameItem(name, description, can_take, aliases, properties, verb_interactions) == [name |-> name, description |-> description, can_take |-> can_take, aliases |-> aliases, properties |-> properties, verb_interactions |-> verb_interactions, hidden |-> FALSE, event_handlers |-> <<>>]

\* GameRoom.__init__, with the handlers the builder adds to the room
GameRoom(name, description, exits, room_items, handlers) == [name |-> name, description |-> description, exits |-> exits, items |-> room_items, properties |-> <<>>, visited |-> FALSE, event_handlers |-> handlers]

\* ScriptHandler.__init__; id stands for the object's identity
ScriptHandler(id, conditions, script) == [id |-> id, conditions |-> conditions, script |-> script]

\* GameItem.add_event_handler
ItemAddEventHandler(item, handler) == [item EXCEPT !.event_handlers = Append(@, handler)]

\* The GameState of the variables, no event dispatched yet
State == [players |-> players, rooms |-> rooms, items |-> items, global_flags |-> global_flags, event_handlers |-> event_handlers, starting_room |-> starting_room, trace |-> <<>>, joined |-> joined]

\* GameState.__init__ with the given world loaded
Loaded(world_items, world_rooms, handlers, start) == /\ players = <<>> /\ rooms = world_rooms /\ items = world_items /\ global_flags = <<>> /\ event_handlers = handlers /\ starting_room = start /\ joined = <<>>

\* The items of the main world: two things called "gold", one of them fixed,
\* the other to be touched only by who holds gold in the vault;
\* a scroll that is used up by reading; a ball that lands in the room it is
\* thrown in while the thrower is carried to the vault; a fixed chest without
\* a description whose unlock interaction requires the flag has_key.  The
\* ball carries a handler without conditions, the coin one that would block
\* every move
MainItems == [coin |-> ItemAddEventHandler(GameItem("coin", "A gold coin.", TRUE, <<"gold">>, <<>>, [touch |-> [requires |-> <<"item:gold", "in_room:vault">>, effects |-> <<<<"set_flag", PyStr("sealed")>>>>]]), ScriptHandler("i2", [event_type |-> "attempt_move"], [raises |-> FALSE, response |-> "BLOCK:The coin holds you back."])), statue |-> GameItem("statue", "A gold statue of a king.", FALSE, <<"gold">>, <<>>, [push |-> [effects |-> <<<<"set_flag", PyDict(<<<<"sealed", PyBool(TRUE)>>>>)>>>>, response |-> "The {item_name} grinds forward."], pull |-> [requires |-> <<"flag:sealed">>, effects |-> <<<<"set_flag", PyDict(<<<<"sealed", PyBool(FALSE)>>>>)>>>>, failure_response |-> "It will not move."]]), scroll |-> GameItem("scroll", "An old scroll.", TRUE, <<>>, <<>>, [read |-> [effects |-> <<<<"score", PyInt(10)>>, <<"remove_item", PyBool(TRUE)>>>>, response |-> "{player_name} read the {item_name}. It crumbles."]]), ball |-> ItemAddEventHandler(GameItem("ball", "A rubber ball.", TRUE, <<>>, <<>>, [throw |-> [effects |-> <<<<"move_item_to_room", PyBool(TRUE)>>, <<"teleport_to", PyStr("vault")>>>>]]), ScriptHandler("i1", <<>>, [raises |-> FALSE, response |-> "The ball bounces."])), chest |-> GameItem("chest", "", FALSE, <<>>, <<>>, [unlock |-> [requires |-> <<"flag:has_key">>, effects |-> <<<<"set_flag", PyDict(<<<<"chest_open", PyBool(TRUE)>>>>)>>>>, response |-> "The {item_name} opens.", failure_response |-> "The chest is locked."]])]

MainGlobalHandlers == <<ScriptHandler("g1", [event_type |-> "player_joined"], [raises |-> FALSE, response |-> "Welcome, adventurer!"]), ScriptHandler("g2", [event_type |-> "command", player_has_item |-> "gold"], [raises |-> FALSE]), ScriptHandler("g3", [player_in_room |-> "vault", flag_set |-> "sealed"], [raises |-> FALSE, response |-> ""]), ScriptHandler("g4", [event_type |-> "item_taken"], [raises |-> TRUE])>>

MainRooms == [hall |-> GameRoom("Great Hall", "A hall of stone.", <<<<"north", "vault">>, <<"down", "cellar">>>>, <<"coin", "statue", "ball">>, <<ScriptHandler("r1", [event_type |-> "attempt_move", flag_set |-> "sealed"], [raises |-> FALSE, response |-> "BLOCK:The way is sealed."]), ScriptHandler("r2", [event_type |-> "command"], [raises |-> FALSE, response |-> "The hall echoes."])>>), vault |-> GameRoom("Vault", "A small vault.", <<<<"south", "hall">>, <<"in", "hall">>>>, <<"scroll", "chest">>, <<ScriptHandler("r3", [event_type |-> "player_moved"], [raises |-> FALSE, response |-> "You enter the vault."]), ScriptHandler("r4", [event_type |-> "attempt_move"], [raises |-> FALSE, response |-> "You turn to leave."])>>)]

Init == Loaded(MainItems, MainRooms, MainGlobalHandlers, "hall")

-----------------------------------------------------------------------------
(* World loading.  A configuration is the file named on the command line:  *)
(* file says whether it can be opened and parsed ("ok", "missing",         *)
(* "malformed"); items and rooms are ordered dicts of id to data, data a   *)
(* record with the keys the file gives; event_handlers is a list of        *)
(* records, initial_flags an ordered dict.                                 *)

\* GameState.__init__
EmptyGameState == [players |-> <<>>, rooms |-> <<>>, items |-> <<>>, global_flags |-> <<>>, event_handlers |-> <<>>, starting_room |-> "entrance_hall", trace |-> <<>>, joined |-> <<>>]

\* data.get(key, default)
DataGet(data, key, default) == IF key \in DOMAIN data THEN data[key] ELSE default

\* load_from_json : the entries of a section that are not comment fields
Entries(section) == SelectSeq(section, LAMBDA entry : ~StartsWith(entry[1], "_"))

\* load_from_json : the GameItem of an entry
LoadItem(item_data) == GameItem(item_data.name, item_data.description, DataGet(item_data, "can_take", TRUE), DataGet(item_data, "aliases", <<>>), DataGet(item_data, "properties", <<>>), DataGet(item_data, "verb_interactions", <<>>))

\* load_from_json : the GameRoom of an entry; an item id that is not defined
\* is passed over
LoadRoom(loaded_items, room_data) == [GameRoom(room_data.name, room_data.description, DataGet(room_data, "exits", <<>>), SelectSeq(DataGet(room_data, "items", <<>>), LAMBDA item_id : item_id \in DOMAIN loaded_items), <<>>) EXCEPT !.properties = DataGet(room_data, "properties", <<>>)]

\* load_from_json : one handler added to its scope, or to none
AddHandler(gs, handler_data) ==
    LET handler == ScriptHandler(handler_data.id, DataGet(handler_data, "conditions", <<>>), handler_data.script)
        scope == DataGet(handler_data, "scope", "global")
    IN  IF handler_data.type # "script" THEN gs
        ELSE IF scope = "global" THEN [gs EXCEPT !.event_handlers = Append(@, handler)]
        ELSE IF StartsWith(scope, "room:") THEN (IF From(scope, 5) \in DOMAIN gs.rooms THEN [gs EXCEPT !.rooms[From(scope, 5)].event_handlers = Append(@, handler)] ELSE gs)
        ELSE IF StartsWith(scope, "item:") THEN (IF From(scope, 5) \in DOMAIN gs.items THEN [gs EXCEPT !.items[From(scope, 5)].event_handlers = Append(@, handler)] ELSE gs)
        ELSE gs

RECURSIVE AddHandlers(_, _)
\* load_from_json : the loop over event_handlers
AddHandlers(gs, handlers) == IF handlers = <<>> THEN gs ELSE AddHandlers(AddHandler(gs, Head(handlers)), Tail(handlers))

\* A choice of starting room that ignores the starting_room property (the
\* loader's looks for a flagged room first)
StartingRoomFirst(room_entries) == IF room_entries # <<>> THEN room_entries[1][1] ELSE "entrance_hall"

\* load_from_json : the starting room, from the rooms in definition order
StartingRoom(room_entries) ==
    LET flagged == SelectSeq(room_entries, LAMBDA entry : DictHas(DataGet(entry[2], "properties", <<>>), "starting_room") /\ Truthy(DictGet(DataGet(entry[2], "properties", <<>>), "starting_room")))
    IN  IF flagged # <<>> THEN flagged[1][1]
        ELSE IF room_entries # <<>> THEN room_entries[1][1]
        ELSE "entrance_hall"

\* load_from_json : what makes it raise: a file that cannot be opened or
\* parsed, an item or room without name or description, a handler without
\* type, a script handler without script
LoadRaises(config) ==
    \/ config.file # "ok"
    \/ \E k \in 1..Len(Entries(config.items)) : ~({"name", "description"} \subseteq DOMAIN Entries(config.items)[k][2])
    \/ \E k \in 1..Len(Entries(config.rooms)) : ~({"name", "description"} \subseteq DOMAIN Entries(config.rooms)[k][2])
    \/ \E k \in 1..Len(config.event_handlers) : "type" \notin DOMAIN config.event_handlers[k] \/ (config.event_handlers[k].type = "script" /\ "script" \notin DOMAIN config.event_handlers[k])

\* GameBuilder.load_from_json, when it does not raise
LoadFromJson(config) ==
    LET item_entries == Entries(config.items)
        room_entries == Entries(config.rooms)
        loaded_items == [item_id \in {item_entries[k][1] : k \in 1..Len(item_entries)} |-> LoadItem(DictGet(item_entries, item_id))]
        loaded_rooms == [room_id \in {room_entries[k][1] : k \in 1..Len(room_entries)} |-> LoadRoom(loaded_items, DictGet(room_entries, room_id))]
        g1 == AddHandlers([EmptyGameState EXCEPT !.items = loaded_items, !.rooms = loaded_rooms], config.event_handlers)
        g2 == SetFlags(g1, config.initial_flags)
    IN  [g2 EXCEPT !.starting_room = StartingRoom(room_entries), !.trace = <<>>]

\* create_default_game
CreateDefaultGame == [EmptyGameState EXCEPT !.items = [leaflet |-> GameItem("leaflet", "A small leaflet with game instructions.", TRUE, <<"paper", "instructions">>, <<>>, <<>>)], !.rooms = [entrance_hall |-> GameRoom("Starting Room", "You are in a simple room. There appears to be a leaflet here. Try typing 'help' for available commands.", <<>>, <<"leaflet">>, <<>>)]]

\* load_game_config : the loaded game, the default game when loading raises
LoadGameConfig(config) == IF LoadRaises(config) THEN CreateDefaultGame ELSE LoadFromJson(config)

-----------------------------------------------------------------------------
(* The environment: message_received delivers one command at a time, each  *)
(* processed to completion.  A run is the set of sender addresses and the  *)
(* bounds on the counters.                                                 *)

MaxScore == 10

MaxMoves == 2

MaxMovesShared == 1

\* Eleven takes of 5 points: one more than an inventory holds
MaxScoreHoard == 55

MainRun == [addresses |-> {"a1"}, max_score |-> MaxScore, max_moves |-> MaxMoves]

\* Every name and alias of the world's items, and a name of nothing
Names == UNION {{items[i].name} \cup {items[i].aliases[k] : k \in 1..Len(items[i].aliases)} : i \in DOMAIN items} \cup {"ghost"}

\* Every exit key of the world's rooms, a direction that is never an exit and a preposition
Directions == UNION {{rooms[r].exits[k][1] : k \in 1..Len(rooms[r].exits)} : r \in DOMAIN rooms} \cup {"west", "in"}

\* The verb-object commands the world's items define
Interactions == UNION {{<<v, items[i].name>> : v \in DOMAIN items[i].verb_interactions} : i \in DOMAIN items}

\* The command texts delivered
Texts == {<<>>, <<"look">>, <<"inventory">>, <<"score">>, <<"help">>, <<"quit">>, <<"dance">>, <<"examine", "coin">>, <<"use", "coin">>, <<"unlock", "statue">>, <<"open", "statue">>, <<"close", "statue">>, <<"touch", "ghost">>, <<"go", "NORTH">>, <<"x", "chest">>, <<"look", "at", "coin">>, <<"use", "coin", "on", "statue">>, <<"use", "coin", "with", "ball">>} \cup {<<v, n>> : v \in {"take", "drop"}, n \in Names} \cup {<<"go", d>> : d \in Directions} \cup Interactions

\* The verb of a command text, None when it has none
VerbOf(text) == ParseCommandWithPrepositions(text).verb

Bounded(run, gs) == \A a \in DOMAIN gs.players : gs.players[a].score <= run.max_score /\ gs.players[a].moves <= run.max_moves

\* message_received : game_engine.process_command(sender_address, command_text)
Deliver(run, address, text) ==
    \E done \in {ProcessCommand(State, address, text)} :
        /\ Bounded(run, done.gs)
        /\ players' = done.gs.players
        /\ rooms' = done.gs.rooms
        /\ items' = done.gs.items
        /\ global_flags' = done.gs.global_flags
        /\ event_handlers' = done.gs.event_handlers
        /\ starting_room' = done.gs.starting_room
        /\ joined' = done.gs.joined

Empty(run) == \E a \in run.addresses, text \in Texts : VerbOf(text) = None /\ Deliver(run, a, text)

Look(run) == \E a \in run.addresses, text \in Texts : VerbOf(text) \in LookVerbs /\ Deliver(run, a, text)

Take(run) == \E a \in run.addresses, text \in Texts : VerbOf(text) \in TakeVerbs /\ Deliver(run, a, text)

Drop(run) == \E a \in run.addresses, text \in Texts : VerbOf(text) \in DropVerbs /\ Deliver(run, a, text)

Go(run) == \E a \in run.addresses, text \in Texts : VerbOf(text) \in GoVerbs /\ Deliver(run, a, text)

Inventory(run) == \E a \in run.addresses, text \in Texts : VerbOf(text) \in InventoryVerbs /\ Deliver(run, a, text)

Examine(run) == \E a \in run.addresses, text \in Texts : VerbOf(text) \in ExamineVerbs /\ Deliver(run, a, text)

Use(run) == \E a \in run.addresses, text \in Texts : VerbOf(text) \in UseVerbs /\ Deliver(run, a, text)

Unlock(run) == \E a \in run.addresses, text \in Texts : VerbOf(text) = "unlock" /\ Deliver(run, a, text)

Open(run) == \E a \in run.addresses, text \in Texts : VerbOf(text) = "open" /\ Deliver(run, a, text)

Close(run) == \E a \in run.addresses, text \in Texts : VerbOf(text) = "close" /\ Deliver(run, a, text)

Score(run) == \E a \in run.addresses, text \in Texts : VerbOf(text) = "score" /\ Deliver(run, a, text)

Help(run) == \E a \in run.addresses, text \in Texts : VerbOf(text) \in HelpVerbs /\ Deliver(run, a, text)

Quit(run) == \E a \in run.addresses, text \in Texts : VerbOf(text) \in QuitVerbs /\ Deliver(run, a, text)

VerbObject(run) == \E a \in run.addresses, text \in Texts : VerbOf(text) \in ObjectVerbs /\ Deliver(run, a, text)

Unknown(run) == \E a \in run.addresses, text \in Texts : VerbOf(text) \notin BuiltinVerbs \cup ObjectVerbs \cup {None} /\ Deliver(run, a, text)

\* One command delivered, whatever its verb
Step(run) == \/ Empty(run) \/ Look(run) \/ Take(run) \/ Drop(run) \/ Go(run) \/ Inventory(run) \/ Examine(run) \/ Use(run) \/ Unlock(run) \/ Open(run) \/ Close(run) \/ Score(run) \/ Help(run) \/ Quit(run) \/ VerbObject(run) \/ Unknown(run)

Next == Step(MainRun)

Spec == Init /\ [][Next]_vars

-----------------------------------------------------------------------------
(* A world shared by two senders: two rooms, a coin that lands where it is *)
(* thrown while the thrower is carried to the vault, a scroll used up by   *)
(* reading, which makes the reader wise and scores; no handlers.           *)

SharedItems == [coin |-> GameItem("coin", "A gold coin.", TRUE, <<"gold">>, <<>>, [throw |-> [effects |-> <<<<"move_item_to_room", PyBool(TRUE)>>, <<"teleport_to", PyStr("vault")>>>>]]), scroll |-> GameItem("scroll", "An old scroll.", TRUE, <<>>, <<>>, [read |-> [effects |-> <<<<"remove_item", PyBool(TRUE)>>, <<"score", PyInt(5)>>, <<"set_player_property", PyDict(<<<<"wise", PyBool(TRUE)>>>>)>>>>]])]

SharedRooms == [hall |-> GameRoom("Great Hall", "A hall of stone.", <<<<"north", "vault">>>>, <<"coin", "scroll">>, <<>>), vault |-> GameRoom("Vault", "A small vault.", <<<<"south", "hall">>>>, <<>>, <<>>)]

InitShared == Loaded(SharedItems, SharedRooms, <<>>, "hall")

SharedRun == [addresses |-> {"a1", "a2"}, max_score |-> MaxScore, max_moves |-> MaxMovesShared]

NextShared == Step(SharedRun)

SpecShared == InitShared /\ [][NextShared]_vars

-----------------------------------------------------------------------------
(* A world with more takeable items than an inventory holds: one room,     *)
(* ten coins and a gem, a dragon that cannot be taken, no handlers.        *)

Coin == GameItem("coin", "A gold coin.", TRUE, <<>>, <<>>, <<>>)

Gem == GameItem("gem", "A red gem.", TRUE, <<>>, <<>>, <<>>)

HoardItems == [c1 |-> Coin, c2 |-> Coin, c3 |-> Coin, c4 |-> Coin, c5 |-> Coin, c6 |-> Coin, c7 |-> Coin, c8 |-> Coin, c9 |-> Coin, c10 |-> Coin, g1 |-> Gem, dragon |-> GameItem("dragon", "A sleeping dragon.", FALSE, <<>>, <<>>, <<>>)]

HoardRooms == [hoard |-> GameRoom("Hoard", "A dragon's hoard.", <<>>, <<"c1", "c2", "c3", "c4", "c5", "c6", "c7", "c8", "c9", "c10", "g1", "dragon">>, <<>>)]

InitHoard == Loaded(HoardItems, HoardRooms, <<>>, "hoard")

HoardRun == [addresses |-> {"a1"}, max_score |-> MaxScoreHoard, max_moves |-> MaxMoves]

NextHoard == Step(HoardRun)

SpecHoard == InitHoard /\ [][NextHoard]_vars

-----------------------------------------------------------------------------
(* A world whose exits change, for two senders: a field with a lever that  *)
(* opens a way east, to the cave when pushed and to the hut when pulled,   *)
(* a path that leads round the field back into it, a stone that carries    *)
(* its thrower to the hut, and a handler that blocks whoever carries the   *)
(* stone.  The scripts of                                                  *)
(* three handlers fail: a global one on commands sent in the field, one of *)
(* the field on commands of whoever carries the stone, one of the hut on   *)
(* arrivals; after each of the first two comes a handler that answers.     *)

SwitchItems == [lever |-> GameItem("lever", "A rusty lever.", FALSE, <<>>, <<>>, [push |-> [effects |-> <<<<"add_room_exit", PyDict(<<<<"direction", PyStr("east")>>, <<"to_room", PyStr("cave")>>>>)>>>>, response |-> "A door opens to the east."], pull |-> [effects |-> <<<<"add_room_exit", PyDict(<<<<"direction", PyStr("east")>>, <<"to_room", PyStr("hut")>>>>)>>>>]]), stone |-> GameItem("stone", "A heavy stone.", TRUE, <<>>, <<>>, [throw |-> [effects |-> <<<<"move_item_to_room", PyBool(TRUE)>>, <<"teleport_to", PyStr("hut")>>>>]])]

SwitchRooms == [field |-> GameRoom("Field", "An open field.", <<<<"north", "hut">>, <<"round", "field">>>>, <<"lever", "stone">>, <<ScriptHandler("f1", [event_type |-> "attempt_move", player_has_item |-> "stone"], [raises |-> FALSE, response |-> "BLOCK:The stone is too heavy."]), ScriptHandler("f2", [event_type |-> "command", player_has_item |-> "stone"], [raises |-> TRUE]), ScriptHandler("f3", [event_type |-> "command"], [raises |-> FALSE, response |-> "Grass rustles."])>>), hut |-> GameRoom("Hut", "A small hut.", <<<<"south", "field">>>>, <<>>, <<ScriptHandler("h1", [event_type |-> "player_moved"], [raises |-> TRUE])>>), cave |-> GameRoom("Cave", "A dark cave.", <<<<"west", "field">>>>, <<>>, <<>>)]

SwitchGlobalHandlers == <<ScriptHandler("s1", [event_type |-> "command", player_in_room |-> "field"], [raises |-> TRUE]), ScriptHandler("s2", [event_type |-> "command"], [raises |-> FALSE, response |-> "The wind blows."])>>

InitSwitch == Loaded(SwitchItems, SwitchRooms, SwitchGlobalHandlers, "field")

MaxMovesSwitch == 1

SwitchRun == [addresses |-> {"a1", "a2"}, max_score |-> MaxScore, max_moves |-> MaxMovesSwitch]

NextSwitch == Step(SwitchRun)

SpecSwitch == InitSwitch /\ [][NextSwitch]_vars

-----------------------------------------------------------------------------
(* Worlds loaded from configurations: well-formed ones, with and without a *)
(* flagged starting room and with a comment field first; ones with a       *)
(* dangling item id and a dangling exit; one without rooms; a file that is *)
(* missing and one that cannot be loaded; ones that list an item twice;    *)
(* one with handlers of the three scopes and an initial flag.              *)

Lamp == [name |-> "lamp", description |-> "A brass lamp.", aliases |-> <<"light">>]

Cave(room_items, exits) == [name |-> "Cave", description |-> "A dark cave.", items |-> room_items, exits |-> exits]

Den(properties) == [name |-> "Den", description |-> "A dry den.", exits |-> <<<<"west", "cave">>>>, properties |-> properties]

Config(file, config_items, config_rooms) == [file |-> file, items |-> config_items, rooms |-> config_rooms, event_handlers |-> <<>>, initial_flags |-> <<>>]

PlainConfig == Config("ok", <<<<"lamp", Lamp>>>>, <<<<"_comment", [text |-> "rooms"]>>, <<"cave", Cave(<<"lamp">>, <<<<"east", "den">>>>)>>, <<"den", Den(<<>>)>>>>)

FlaggedConfig == Config("ok", <<<<"lamp", Lamp>>>>, <<<<"cave", Cave(<<"lamp">>, <<<<"east", "den">>>>)>>, <<"den", Den(<<<<"starting_room", PyBool(TRUE)>>>>)>>, <<"pit", [name |-> "Pit", description |-> "A deep pit.", properties |-> <<<<"starting_room", PyBool(TRUE)>>>>]>>>>)

UnflaggedConfig == Config("ok", <<<<"lamp", Lamp>>>>, <<<<"cave", Cave(<<"lamp">>, <<<<"east", "den">>>>)>>, <<"den", Den(<<<<"starting_room", PyBool(FALSE)>>>>)>>>>)

DanglingItemConfig == Config("ok", <<<<"lamp", Lamp>>>>, <<<<"cave", Cave(<<"sword", "lamp">>, <<<<"east", "den">>>>)>>, <<"den", Den(<<>>)>>>>)

DanglingExitConfig == Config("ok", <<<<"lamp", Lamp>>>>, <<<<"cave", Cave(<<"lamp">>, <<<<"east", "nowhere">>>>)>>>>)

NoRoomsConfig == Config("ok", <<<<"lamp", Lamp>>>>, <<>>)

MissingConfig == Config("missing", <<>>, <<>>)

BrokenConfig == Config("ok", <<<<"lamp", [name |-> "lamp"]>>>>, <<<<"cave", Cave(<<"lamp">>, <<>>)>>>>)

\* The cave lists the lamp twice
TwiceConfig == Config("ok", <<<<"lamp", Lamp>>>>, <<<<"cave", Cave(<<"lamp", "lamp">>, <<<<"east", "den">>>>)>>, <<"den", Den(<<>>)>>>>)

\* The cave and the den both list the lamp
TwoRoomsConfig == Config("ok", <<<<"lamp", Lamp>>>>, <<<<"cave", Cave(<<"lamp">>, <<<<"east", "den">>>>)>>, <<"den", [name |-> "Den", description |-> "A dry den.", items |-> <<"lamp">>, exits |-> <<<<"west", "cave">>>>]>>>>)

\* A handler for whoever stands in the den, one of the cave, one of the lamp,
\* a flag set from the start, and a lamp that sets it when lit and clears it,
\* with a flag that was never set, when extinguished
FlagsConfig == [Config("ok", <<<<"lamp", [name |-> "lamp", description |-> "A brass lamp.", aliases |-> <<"light">>, verb_interactions |-> [light |-> [effects |-> <<<<"set_flag", PyStr("lit")>>>>], extinguish |-> [effects |-> <<<<"set_flag", PyDict(<<<<"lit", PyBool(FALSE)>>, <<"smoking", PyBool(FALSE)>>>>)>>>>]]]>>>>, <<<<"cave", Cave(<<"lamp">>, <<<<"east", "den">>>>)>>, <<"den", Den(<<>>)>>>>) EXCEPT !.event_handlers = <<[id |-> "c1", type |-> "script", conditions |-> [player_in_room |-> "den"], script |-> [raises |-> FALSE, response |-> "The den is warm."]], [id |-> "c2", type |-> "script", scope |-> "room:cave", conditions |-> [event_type |-> "look_room"], script |-> [raises |-> FALSE, response |-> "Water drips."]], [id |-> "c3", type |-> "script", scope |-> "item:lamp", script |-> [raises |-> FALSE, response |-> "The lamp flickers."]]>>, !.initial_flags = <<<<"lit", PyBool(TRUE)>>>>]

Configs == {PlainConfig, FlaggedConfig, UnflaggedConfig, DanglingItemConfig, DanglingExitConfig, NoRoomsConfig, MissingConfig, BrokenConfig, TwiceConfig, TwoRoomsConfig, FlagsConfig}

\* load_game_config at start-up, for one of the configurations
InitLoad == \E config \in Configs : \E gs \in {LoadGameConfig(config)} : /\ players = gs.players /\ rooms = gs.rooms /\ items = gs.items /\ global_flags = gs.global_flags /\ event_handlers = gs.event_handlers /\ starting_room = gs.starting_room /\ joined = gs.joined

LoadRun == [addresses |-> {"a1"}, max_score |-> MaxScore, max_moves |-> MaxMoves]

NextLoad == Step(LoadRun)

SpecLoad == InitLoad /\ [][NextLoad]_vars

-----------------------------------------------------------------------------
(* Properties.  A property about one command is stated over the result of  *)
(* process_command applied at the current state: done.gs is the state the  *)
(* command leaves and done.gs.trace the events it dispatched.              *)

\* The addresses commands come from
Senders == {"a1", "a2"}

\* A sender's Player as get_player would find or create it
InventoryOf(gs, a) == IF a \in DOMAIN gs.players THEN gs.players[a].inventory ELSE <<>>

ScoreOf(gs, a) == IF a \in DOMAIN gs.players THEN gs.players[a].score ELSE 0

MovesOf(gs, a) == IF a \in DOMAIN gs.players THEN gs.players[a].moves ELSE 0

RoomOf(gs, a) == IF a \in DOMAIN gs.players THEN gs.players[a].current_room ELSE gs.starting_room

\* The elements of a list
Members(xs) == {xs[k] : k \in 1..Len(xs)}

\* The item lists of all rooms and the inventories (and scores) of all senders and players
RoomLists(gs) == [r \in DOMAIN gs.rooms |-> gs.rooms[r].items]

Inventories(gs) == [a \in Senders \cup DOMAIN gs.players |-> InventoryOf(gs, a)]

Scores(gs) == [a \in Senders \cup DOMAIN gs.players |-> ScoreOf(gs, a)]

\* The name and the aliases of an item
NamesOf(i) == {items[i].name} \cup Members(items[i].aliases)

\* The state a command leaves, without the record of its events
Left(done) == [done.gs EXCEPT !.trace = <<>>]

\* The places an item occupies: positions of room lists and of inventories
RoomPlaces(i) == {p \in UNION {{<<r, k>> : k \in 1..Len(rooms[r].items)} : r \in DOMAIN rooms} : rooms[p[1]].items[p[2]] = i}

InventoryPlaces(i) == {p \in UNION {{<<a, k>> : k \in 1..Len(players[a].inventory)} : a \in DOMAIN players} : players[p[1]].inventory[p[2]] = i}

\* C1: whatever commands any number of players have issued, every item occupies
\* at most one place among all room item lists and all inventories
C1_SingleContainer == \A i \in DOMAIN items : Cardinality(RoomPlaces(i)) + Cardinality(InventoryPlaces(i)) <= 1

\* Two players exist; the scroll has been read away (remove_item), the coin has
\* been thrown and lies in a room while a player was carried to the vault without a move
C1_Witness == /\ Senders \subseteq DOMAIN players /\ RoomPlaces("scroll") \cup InventoryPlaces("scroll") = {} /\ RoomPlaces("coin") # {} /\ \E a \in DOMAIN players : players[a].current_room = "vault" /\ players[a].moves = 0

\* C2: in every reachable state every player's inventory is no longer than the
\* player's max_inventory
C2_InventoryWithinCapacity == \A a \in DOMAIN players : Len(players[a].inventory) <= players[a].max_inventory

\* A player carries max_inventory (10) items
C2_Witness == \E a \in DOMAIN players : Len(players[a].inventory) = players[a].max_inventory /\ players[a].max_inventory = DefaultMaxInventory

\* C3 as stated: a player with a full inventory who issues take <name> for a
\* name of an item lying in the room leaves the world unchanged and is told
\* "Your inventory is full!"
C3_AsStated ==
    \A a \in DOMAIN players : \A i \in Members(rooms[players[a].current_room].items) : \A n \in NamesOf(i) :
        Len(players[a].inventory) = players[a].max_inventory =>
            LET done == ProcessCommand(State, a, <<"take", n>>)
            IN  Left(done) = State /\ done.command_response = "Your inventory is full!"

\* C3, amended: a take by a player with a full inventory leaves the world
\* unchanged whatever is named; the answer is "Your inventory is full!" when the
\* name resolves, in the player's room, to an item that can be taken (otherwise
\* the lookup or the can_take refusal comes first)
C3_FullInventoryTake ==
    \A a \in DOMAIN players : \A n \in Names :
        (Len(players[a].inventory) = players[a].max_inventory /\ HasRoom(State, players[a].current_room)) =>
            LET done == ProcessCommand(State, a, <<"take", n>>)
                item == RoomGetItem(State, players[a].current_room, n)
            IN  /\ Left(done) = State
                /\ done.command_response = (IF item = None THEN "There is no '" \o n \o "' here." ELSE IF ~items[item].can_take THEN "You can't take the " \o items[item].name \o "." ELSE "Your inventory is full!")

\* A player with a full inventory stands in a room where an item that can be taken lies
C3_Witness == \E a \in DOMAIN players : Len(players[a].inventory) = players[a].max_inventory /\ \E i \in Members(rooms[players[a].current_room].items) : items[i].can_take

\* C4 as stated: for every item with can_take false and every name of it,
\* take <name> changes no room list, no inventory and no score, and takes nothing
C4_AsStated ==
    \A a \in DOMAIN players : \A i \in DOMAIN items : \A n \in NamesOf(i) :
        ~items[i].can_take =>
            LET done == ProcessCommand(State, a, <<"take", n>>)
            IN  /\ RoomLists(done.gs) = RoomLists(State)
                /\ Inventories(done.gs) = Inventories(State)
                /\ Scores(done.gs) = Scores(State)
                /\ ~StartsWith(done.command_response, "Taken")

\* C4, amended: when take <name> resolves, in the player's room, to an item with
\* can_take false (the first item of the room's list that the name matches),
\* no room list, inventory or score changes and the answer is the refusal
\* "You can't take the <item>."
C4_UntakeableStays ==
    \A a \in Senders : \A n \in Names :
        LET room_id == RoomOf(State, a)
            item == RoomGetItem(State, room_id, n)
            done == ProcessCommand(State, a, <<"take", n>>)
        IN  (HasRoom(State, room_id) /\ item # None /\ ~items[item].can_take) =>
                /\ RoomLists(done.gs) = RoomLists(State)
                /\ Inventories(done.gs) = Inventories(State)
                /\ Scores(done.gs) = Scores(State)
                /\ done.command_response = "You can't take the " \o items[item].name \o "."

\* A player stands by the statue and its alias "gold" resolves to it: the coin,
\* which shares the alias, has been taken away
C4_Witness == \E a \in DOMAIN players : HasRoom(State, players[a].current_room) /\ RoomGetItem(State, players[a].current_room, "gold") = "statue" /\ RoomPlaces("coin") = {}

\* C5 as stated: for every item a player carries and every name of it, drop
\* <name> and then take <name> leave the inventory and the current room with
\* the members they had
C5_AsStated ==
    \A a \in DOMAIN players : \A i \in Members(players[a].inventory) : \A n \in NamesOf(i) :
        LET dropped == ProcessCommand(State, a, <<"drop", n>>)
            taken == ProcessCommand(dropped.gs, a, <<"take", n>>)
            room_id == players[a].current_room
        IN  HasRoom(State, room_id) =>
                /\ Members(taken.gs.players[a].inventory) = Members(players[a].inventory)
                /\ Members(taken.gs.rooms[room_id].items) = Members(rooms[room_id].items)

\* C5, amended: when drop <name> succeeds and no item that lay in the room
\* matches the name, take <name> brings back what was dropped: inventory and
\* room have the members they had
C5_DropTakeRoundTrip ==
    \A a \in DOMAIN players : \A i \in Members(players[a].inventory) : \A n \in NamesOf(i) :
        LET dropped == ProcessCommand(State, a, <<"drop", n>>)
            taken == ProcessCommand(dropped.gs, a, <<"take", n>>)
            room_id == players[a].current_room
        IN  (StartsWith(dropped.command_response, "Dropped: ") /\ \A j \in Members(rooms[room_id].items) : n \notin NamesOf(j)) =>
                /\ StartsWith(taken.command_response, "Taken: ")
                /\ Members(taken.gs.players[a].inventory) = Members(players[a].inventory)
                /\ Members(taken.gs.rooms[room_id].items) = Members(rooms[room_id].items)

\* A player carries the coin in a room where nothing answers to "gold"
C5_Witness == \E a \in DOMAIN players : "coin" \in Members(players[a].inventory) /\ HasRoom(State, players[a].current_room) /\ \A j \in Members(rooms[players[a].current_room].items) : "gold" \notin NamesOf(j)

\* The keys of the exits of a sender's room
ExitKeys(a) == {rooms[RoomOf(State, a)].exits[k][1] : k \in 1..Len(rooms[RoomOf(State, a)].exits)}

\* The responses to the attempt_move event of a command
AttemptResponses(done) == IF \E k \in 1..Len(done.gs.trace) : done.gs.trace[k].event_type = "attempt_move" THEN done.gs.trace[CHOOSE k \in 1..Len(done.gs.trace) : done.gs.trace[k].event_type = "attempt_move"].responses ELSE <<>>

\* C6 as stated: for every token d that is no exit key of the player's room,
\* go d leaves current_room and moves alone and answers "You can't go d from here."
C6_AsStated ==
    \A a \in DOMAIN players : \A d \in Directions :
        (HasRoom(State, RoomOf(State, a)) /\ d \notin ExitKeys(a)) =>
            LET done == ProcessCommand(State, a, <<"go", d>>)
            IN  /\ RoomOf(done.gs, a) = RoomOf(State, a)
                /\ MovesOf(done.gs, a) = MovesOf(State, a)
                /\ done.command_response = "You can't go " \o d \o " from here."

\* C6, amended: for every token d that is no exit key of the player's room, go d
\* leaves current_room and moves alone; it answers "You can't go d from here."
\* unless d is a preposition, which the parser drops ("Go where?"), or a handler
\* of attempt_move answered with the block prefix (the answer is that text)
C6_NoSuchExit ==
    \A a \in Senders : \A d \in Directions :
        (HasRoom(State, RoomOf(State, a)) /\ d \notin ExitKeys(a)) =>
            LET done == ProcessCommand(State, a, <<"go", d>>)
                blocks == SelectSeq(AttemptResponses(done), LAMBDA r : StartsWith(r, "BLOCK:"))
            IN  /\ RoomOf(done.gs, a) = RoomOf(State, a)
                /\ MovesOf(done.gs, a) = MovesOf(State, a)
                /\ done.command_response = (IF d \in Prepositions THEN "Go where?" ELSE IF blocks # <<>> THEN SubSeq(blocks[1], 7, Len(blocks[1])) ELSE "You can't go " \o d \o " from here.")

\* A player stands in the hall, where "west" is no exit, and the sealed flag is
\* set, so that a handler blocks every move
C6_Witness == \E a \in DOMAIN players : players[a].current_room = "hall" /\ "west" \notin ExitKeys(a) /\ Truthy(GetFlag(State, "sealed"))

\* C7 as stated: when the player's room has an exit d whose target is no room
\* of the world, go d leaves current_room and moves alone
C7_AsStated ==
    \A a \in DOMAIN players : \A d \in Directions :
        (HasRoom(State, RoomOf(State, a)) /\ d \in ExitKeys(a) /\ ~HasRoom(State, DictGet(rooms[RoomOf(State, a)].exits, d))) =>
            LET done == ProcessCommand(State, a, <<"go", d>>)
            IN  RoomOf(done.gs, a) = RoomOf(State, a) /\ MovesOf(done.gs, a) = MovesOf(State, a)

\* The handlers of the world, global and of every room, and the one of an id
Handlers == Members(event_handlers) \cup UNION {Members(rooms[r].event_handlers) : r \in DOMAIN rooms}

HandlerOf(id) == CHOOSE h \in Handlers : h.id = id

\* What a handler's condition set asks of an event and of the world a handler
\* saw (c: the player's room and inventory, the set flags)
ConditionsHold(h, e, c) ==
    /\ "event_type" \in DOMAIN h.conditions => e.event_type = h.conditions.event_type
    /\ "player_has_item" \in DOMAIN h.conditions => \E i \in Members(c.inv) : h.conditions.player_has_item \in NamesOf(i)
    /\ "player_in_room" \in DOMAIN h.conditions => c.room = h.conditions.player_in_room
    /\ "flag_set" \in DOMAIN h.conditions => h.conditions.flag_set \in c.flags

\* What a script leaves as its response
Outcome(h) == IF h.script.raises THEN "Something mysterious happens..." ELSE IF "response" \in DOMAIN h.script THEN h.script.response ELSE "Script executed."

\* The commands a property is checked on
Commands == Texts

\* C8: in every dispatch of every command, a consulted handler fires if and only
\* if every condition of its set holds; one that does not fire contributes no
\* response; one that fires is consulted once and contributes its one response,
\* which is dropped when empty
C8_FiresIffConditions ==
    \A a \in Senders : \A text \in Commands :
        LET trace == ProcessCommand(State, a, text).gs.trace
        IN  \A k \in 1..Len(trace) :
                LET e == trace[k]
                IN  /\ \A m \in 1..Len(e.consulted) :
                            LET c == e.consulted[m]
                            IN  /\ c.fired <=> ConditionsHold(HandlerOf(c.id), e, c)
                                /\ ~c.fired => c.response = ""
                                /\ c.fired => c.response = Outcome(HandlerOf(c.id))
                                /\ \A m2 \in 1..Len(e.consulted) : e.consulted[m2].id = c.id => m2 = m
                    /\ Len(e.responses) = Cardinality({m \in 1..Len(e.consulted) : e.consulted[m].fired /\ e.consulted[m].response # ""})

\* A player stands in the hall without gold while the sealed flag is set: of
\* the handlers there, one has its flag condition met and one its item condition unmet
C8_Witness == \E a \in DOMAIN players : players[a].current_room = "hall" /\ Truthy(GetFlag(State, "sealed")) /\ ~PlayerHasItem(State, a, "gold")

\* The ids of a list of handlers
Ids(hs) == [k \in 1..Len(hs) |-> hs[k].id]

\* C9: every dispatch of every command consults all global handlers in
\* registration order and then, when the event carries a player address, all
\* handlers of that player's room in registration order (for the command
\* event: the room the sender is in); the responses are the non-empty
\* responses of the consulted handlers in that order, whichever handlers fired
C9_ConsultOrder ==
    \A a \in Senders : \A text \in Commands :
        LET trace == ProcessCommand(State, a, text).gs.trace
        IN  \A k \in 1..Len(trace) :
                LET e == trace[k]
                    room_handlers == IF "player_address" \in DOMAIN e.data /\ e.room \in DOMAIN rooms THEN rooms[e.room].event_handlers ELSE <<>>
                IN  /\ Ids(e.consulted) = Ids(event_handlers) \o Ids(room_handlers)
                    /\ e.responses = SelectSeq([m \in 1..Len(e.consulted) |-> e.consulted[m].response], LAMBDA r : r # "")
                    /\ e.event_type = "command" => e.room = RoomOf(State, a)
                    /\ e.event_type = "player_moved" => e.room = e.data.to_room
                    /\ e.event_type = "attempt_move" => e.room = e.data.from_room

\* A player stands in the hall with the coin ("gold"): a command event there
\* makes a global handler and then a room handler fire
C9_Witness == \E a \in DOMAIN players : players[a].current_room = "hall" /\ PlayerHasItem(State, a, "gold") /\ ProcessCommand(State, a, <<"look">>).event_responses = <<"Script executed.", "The hall echoes.">>

\* The places in a trace of the player_joined events of an address
JoinedAt(trace, a) == {k \in 1..Len(trace) : trace[k].event_type = "player_joined" /\ trace[k].data.player_address = a}

\* C10: every player has been announced by exactly one player_joined event.  A
\* command from an address without a Player creates it in the starting room and
\* dispatches player_joined once, to the end, before the command event begins;
\* a command from an address with a Player dispatches none
C10_JoinedOnce ==
    /\ DOMAIN joined = DOMAIN players
    /\ \A p \in DOMAIN players : joined[p] = 1
    /\ \A a \in Senders : \A text \in Commands :
            LET done == ProcessCommand(State, a, text)
                trace == done.gs.trace
            IN  /\ a \in DOMAIN done.gs.players
                /\ a \in DOMAIN players => JoinedAt(trace, a) = {}
                /\ a \notin DOMAIN players =>
                        /\ JoinedAt(trace, a) = {1}
                        /\ trace[1].room = starting_room
                        /\ done.gs.players[a].current_room = starting_room \/ text # <<>>
                        /\ \A k \in 1..Len(trace) : trace[k].event_type = "command" => k > 1 /\ trace[k].started >= 1

\* Both senders have joined and one of them has moved since
C10_Witness == Senders \subseteq DOMAIN players /\ \E a \in DOMAIN players : players[a].moves > 0

\* The places in a trace of the events of a type
EventsAt(trace, event_type) == {k \in 1..Len(trace) : trace[k].event_type = event_type}

\* The flags of a state that are set
FlagsSet(gs) == {f \in DOMAIN gs.global_flags : Truthy(gs.global_flags[f])}

\* C11: every command text with a verb, whether the verb is a built-in, an
\* object verb or unknown, dispatches exactly one command event, which carries
\* the sender's address, the verb, the parsed args and the raw text; only the
\* sender's player_joined precedes it, its handlers see the world as it was
\* before the command, and every event of the command's own handler begins
\* after the command event has ended
C11_OneCommandEvent ==
    \A a \in Senders : \A text \in Commands :
        LET done == ProcessCommand(State, a, text)
            trace == done.gs.trace
            at == EventsAt(trace, "command")
        IN  text # <<>> =>
                /\ Cardinality(at) = 1
                /\ \A k \in at :
                        /\ trace[k].data = [player_address |-> a, verb |-> Lower(text[1]), args |-> ParseCommandWithPrepositions(text).args, full_command |-> text]
                        /\ \A j \in 1..(k - 1) : trace[j].event_type = "player_joined"
                        /\ \A j \in (k + 1)..Len(trace) : trace[j].started >= k
                        /\ \A m \in 1..Len(trace[k].consulted) :
                                /\ trace[k].consulted[m].room = RoomOf(State, a)
                                /\ trace[k].consulted[m].inv = InventoryOf(State, a)
                                /\ trace[k].consulted[m].flags = FlagsSet(State)

\* A player stands by the ball, which can be taken: take ball dispatches the
\* command event and then item_taken, and dance, which no table knows, dispatches
\* the command event as well
C11_Witness == \E a \in DOMAIN players : /\ RoomGetItem(State, RoomOf(State, a), "ball") = "ball" /\ EventsAt(ProcessCommand(State, a, <<"take", "ball">>).gs.trace, "item_taken") # {} /\ EventsAt(ProcessCommand(State, a, <<"dance">>).gs.trace, "command") = {1}

\* The last n characters of a text
EndOf(s, n) == SubSeq(s, Len(s) - n + 1, Len(s))

\* What score answers a player in a state
ScoreText(gs, a) == "Score: " \o ToString(gs.players[a].score) \o " points\nMoves: " \o ToString(gs.players[a].moves) \o "\nItems carried: " \o ToString(Len(gs.players[a].inventory)) \o "/" \o ToString(gs.players[a].max_inventory)

\* C12 as stated: when a built-in command or the verb-object path raises, the
\* text process_command returns begins with "Error processing"
C12_AsStated ==
    \A a \in DOMAIN players : \A text \in Commands :
        LET done == ProcessCommand(State, a, text)
        IN  done.raised => StartsWith(done.text, "Error processing")

\* C12, amended: when a built-in command or the verb-object path raises,
\* process_command still returns a text: its last fragment, the command
\* result, begins with "Error processing", the responses of the command
\* event's handlers come before it, and the text begins with "Error processing"
\* when no handler responded; the next command of the same player is
\* processed as any other: score dispatches its command event and answers the
\* player's figures
C12_ErrorsReported ==
    \A a \in Senders : \A text \in Commands :
        LET done == ProcessCommand(State, a, text)
            next == ProcessCommand(Left(done), a, <<"score">>)
        IN  done.raised =>
                /\ StartsWith(done.command_response, "Error processing")
                /\ EndOf(done.text, Len(done.command_response)) = done.command_response
                /\ done.event_responses = <<>> => done.text = done.command_response
                /\ done.event_responses # <<>> => done.text = JoinWith("\n\n", done.event_responses) \o "\n\n" \o done.command_response
                /\ ~next.raised
                /\ Cardinality(EventsAt(next.gs.trace, "command")) = 1
                /\ next.command_response = ScoreText(done.gs, a)

\* A player who holds the coin stands in a room that does not exist: look (a
\* built-in) and touch (the verb-object path) both raise there, after a handler
\* has answered the command event
C12_Witness == \E a \in DOMAIN players : /\ ~HasRoom(State, players[a].current_room) /\ PlayerHasItem(State, a, "gold") /\ ProcessCommand(State, a, <<"look">>).raised /\ ProcessCommand(State, a, <<"touch", "ghost">>).raised /\ ProcessCommand(State, a, <<"look">>).event_responses # <<>>

\* The fragments of a response that are not empty
Kept(fragments) == SelectSeq(fragments, LAMBDA s : s # "")

RECURSIVE Glue(_)
\* Fragments put together with a blank line between one and the next
Glue(fragments) == IF fragments = <<>> THEN "" ELSE IF Len(fragments) = 1 THEN fragments[1] ELSE fragments[1] \o "\n\n" \o Glue(Tail(fragments))

\* The fragments of the response to a command: the responses of the handlers
\* of its command event, as the event's dispatch recorded them, and then the
\* command result
FragmentsOf(done) == (IF EventsAt(done.gs.trace, "command") = {} THEN <<>> ELSE done.gs.trace[CHOOSE k \in EventsAt(done.gs.trace, "command") : TRUE].responses) \o <<done.command_response>>

\* C13 as stated: the response is the command event's responses followed by
\* the command result, empty fragments dropped, joined by a blank line, and
\* the last fragment of every response is the command result
C13_AsStated ==
    \A a \in DOMAIN players : \A text \in Commands :
        LET done == ProcessCommand(State, a, text)
            kept == Kept(FragmentsOf(done))
        IN  text # <<>> =>
                /\ done.text = Glue(kept)
                /\ kept # <<>> => kept[Len(kept)] = done.command_response

\* C13, amended: the response is the command event's responses in dispatch
\* order followed by the command result, empty fragments dropped, joined by a
\* blank line; the command result is the last fragment whenever it is not
\* empty, and when it is empty the response is the handlers' responses alone
C13_ResponseOrder ==
    \A a \in Senders : \A text \in Commands :
        LET done == ProcessCommand(State, a, text)
            kept == Kept(FragmentsOf(done))
        IN  text # <<>> =>
                /\ done.text = Glue(kept)
                /\ done.command_response # "" => kept[Len(kept)] = done.command_response /\ EndOf(done.text, Len(done.command_response)) = done.command_response
                /\ done.command_response = "" => done.text = Glue(Kept(done.event_responses))
                /\ \A k \in EventsAt(done.gs.trace, "command") : done.event_responses = SelectSeq([m \in 1..Len(done.gs.trace[k].consulted) |-> done.gs.trace[k].consulted[m].response], LAMBDA r : r # "")

\* A player who holds the coin stands by the chest, whose description is
\* empty: examining it gives an empty command result after a handler's
\* response, and look gives a handler's response and then a command result
C13_Witness == \E a \in DOMAIN players : /\ PlayerHasItem(State, a, "gold") /\ HasRoom(State, players[a].current_room) /\ "chest" \in Members(rooms[players[a].current_room].items) /\ ProcessCommand(State, a, <<"x", "chest">>).command_response = "" /\ ProcessCommand(State, a, <<"x", "chest">>).text = "Script executed." /\ ProcessCommand(State, a, <<"look">>).event_responses # <<>> /\ ProcessCommand(State, a, <<"look">>).command_response # ""

\* C14 as stated: when the chest lies in the player's room, its unlock
\* interaction requires flag:has_key and has a failure_response, and has_key is
\* not set, unlock chest answers that failure_response and leaves the flag
\* table as it was
C14_AsStated ==
    \A a \in DOMAIN players :
        LET room_id == players[a].current_room
            done == ProcessCommand(State, a, <<"unlock", "chest">>)
        IN  (/\ HasRoom(State, room_id)
             /\ RoomGetItem(State, room_id, "chest") = "chest"
             /\ "unlock" \in DOMAIN items["chest"].verb_interactions
             /\ items["chest"].verb_interactions["unlock"].requires = <<"flag:has_key">>
             /\ "failure_response" \in DOMAIN items["chest"].verb_interactions["unlock"]
             /\ ~Truthy(GetFlag(State, "has_key"))) =>
                /\ done.command_response = items["chest"].verb_interactions["unlock"].failure_response
                /\ done.gs.global_flags = global_flags

\* The requirements and effects of an item's interaction for a verb
RequirementsOf(i, v) == IF "requires" \in DOMAIN items[i].verb_interactions[v] THEN items[i].verb_interactions[v].requires ELSE <<>>

EffectsOf(i, v) == IF "effects" \in DOMAIN items[i].verb_interactions[v] THEN items[i].verb_interactions[v].effects ELSE <<>>

\* C15: when a verb-object command names an item of the player's inventory
\* (nothing in the room answers to the name), the item's interaction for the
\* verb has the effects score n and remove_item true and nothing else, and its
\* requirements are met, the player's score grows by exactly n and the item is
\* afterwards in no inventory and in no room's item list
C15_ScoreAndRemove ==
    \A a \in DOMAIN players : \A i \in Members(players[a].inventory) : \A n \in NamesOf(i) : \A v \in DOMAIN items[i].verb_interactions \cap ObjectVerbs :
        LET room_id == players[a].current_room
            effects == EffectsOf(i, v)
            done == ProcessCommand(State, a, <<v, n>>)
        IN  (/\ HasRoom(State, room_id)
             /\ RoomGetItem(State, room_id, n) = None
             /\ PlayerGetItem(State, a, n) = i
             /\ Members(DictKeys(effects)) = {"score", "remove_item"}
             /\ DictGet(effects, "remove_item") = PyBool(TRUE)
             /\ \A k \in 1..Len(RequirementsOf(i, v)) : CheckRequirement(State, a, RequirementsOf(i, v)[k])) =>
                /\ ~done.raised
                /\ ScoreOf(done.gs, a) = ScoreOf(State, a) + PyNum(DictGet(effects, "score"))
                /\ \A b \in DOMAIN done.gs.players : i \notin Members(done.gs.players[b].inventory)
                /\ \A r \in DOMAIN done.gs.rooms : i \notin Members(done.gs.rooms[r].items)
                /\ Members(done.gs.players[a].inventory) = Members(players[a].inventory) \ {i}
                /\ RoomLists(done.gs) = RoomLists(State)

\* A player carries the scroll, whose read interaction gives 10 points and
\* removes it, together with another item, and reads it
C15_Witness == \E a \in DOMAIN players : /\ HasRoom(State, players[a].current_room) /\ PlayerGetItem(State, a, "scroll") = "scroll" /\ Len(players[a].inventory) > 1 /\ EffectsOf("scroll", "read") = <<<<"score", PyInt(10)>>, <<"remove_item", PyBool(TRUE)>>>> /\ ProcessCommand(State, a, <<"read", "scroll">>).command_response = "you read the scroll. It crumbles."

RECURSIVE Listing(_)
\* One indented line for each item of a list, by name
Listing(list) == IF list = <<>> THEN "" ELSE "\n  " \o items[Head(list)].name \o Listing(Tail(list))

\* C16: when take <name> resolves in the sender's room to an item with
\* can_take and the inventory is below capacity, the item leaves the room's
\* list (the rest keeps its order), is appended to the sender's inventory, the
\* score grows by exactly 5 and nothing else of the players and rooms changes;
\* one item_taken event is dispatched, for that item, and its handlers see
\* the item in the inventory already; the answer is "Taken: <item>." and an
\* inventory command that follows lists the item's name last
C16_TakeMoves ==
    \A a \in Senders : \A n \in Names :
        LET room_id == RoomOf(State, a)
            item == RoomGetItem(State, room_id, n)
            done == ProcessCommand(State, a, <<"take", n>>)
            trace == done.gs.trace
            next == ProcessCommand(Left(done), a, <<"inventory">>)
        IN  (HasRoom(State, room_id) /\ item # None /\ items[item].can_take /\ Len(InventoryOf(State, a)) < DefaultMaxInventory) =>
                /\ done.command_response = "Taken: " \o items[item].name \o "."
                /\ done.gs.rooms[room_id].items = SelectSeq(rooms[room_id].items, LAMBDA j : j # item)
                /\ \A r \in DOMAIN rooms \ {room_id} : done.gs.rooms[r] = rooms[r]
                /\ InventoryOf(done.gs, a) = Append(InventoryOf(State, a), item)
                /\ ScoreOf(done.gs, a) = ScoreOf(State, a) + 5
                /\ RoomOf(done.gs, a) = room_id /\ MovesOf(done.gs, a) = MovesOf(State, a)
                /\ \A b \in DOMAIN players \ {a} : done.gs.players[b] = players[b]
                /\ Cardinality(EventsAt(trace, "item_taken")) = 1
                /\ \A k \in EventsAt(trace, "item_taken") :
                        /\ trace[k].data = [player_address |-> a, item_name |-> items[item].name, item |-> item]
                        /\ \A j \in EventsAt(trace, "command") : j < k
                        /\ trace[k].consulted # <<>>
                        /\ \A c \in 1..Len(trace[k].consulted) : trace[k].consulted[c].inv = Append(InventoryOf(State, a), item)
                /\ next.command_response = "You are carrying:" \o Listing(InventoryOf(State, a)) \o "\n  " \o items[item].name
                /\ Left(next) = Left(done)

\* A player who carries an item stands in a room where another item that can
\* be taken lies, and takes it
C16_Witness == \E a \in DOMAIN players : /\ players[a].inventory # <<>> /\ HasRoom(State, players[a].current_room) /\ \E i \in Members(rooms[players[a].current_room].items) : items[i].can_take /\ ProcessCommand(State, a, <<"take", items[i].name>>).command_response = "Taken: " \o items[i].name \o "."

RECURSIVE CommaList(_)
\* Texts separated by a comma and a space
CommaList(texts) == IF texts = <<>> THEN "" ELSE IF Len(texts) = 1 THEN texts[1] ELSE texts[1] \o ", " \o CommaList(Tail(texts))

\* What look shows of a room: name and description, the items of the room
\* that are not hidden by name, and the keys of the exits
RoomText(r) ==
    LET shown == SelectSeq(rooms[r].items, LAMBDA i : ~items[i].hidden)
    IN  rooms[r].name \o "\n" \o rooms[r].description \o (IF shown # <<>> THEN "\n\nYou can see:" \o Listing(shown) ELSE "") \o (IF rooms[r].exits # <<>> THEN "\n\nExits: " \o CommaList([k \in 1..Len(rooms[r].exits) |-> rooms[r].exits[k][1]]) ELSE "")

\* C17: look without arguments, sent from a room of the world, answers the
\* room's name and description, the names of exactly the items of the room
\* that are not hidden and every exit key; it dispatches one look_room event
\* for the sender and the room, after which the room is marked visited and,
\* for a player who exists, nothing else has changed
C17_LookRoom ==
    \A a \in Senders :
        LET room_id == RoomOf(State, a)
            done == ProcessCommand(State, a, <<"look">>)
            trace == done.gs.trace
        IN  HasRoom(State, room_id) =>
                /\ done.command_response = RoomText(room_id)
                /\ done.gs.rooms = [rooms EXCEPT ![room_id].visited = TRUE]
                /\ a \in DOMAIN players => Left(done) = [State EXCEPT !.rooms[room_id].visited = TRUE]
                /\ Cardinality(EventsAt(trace, "look_room")) = 1
                /\ \A k \in EventsAt(trace, "look_room") : trace[k].data = [player_address |-> a, room_id |-> room_id]
                /\ \A k \in 1..Len(trace) : trace[k].event_type \in {"player_joined", "command", "look_room"}

\* A player stands in a room of the world that nobody has looked at yet, with
\* items lying there and exits leading out, and looks
C17_Witness == \E a \in DOMAIN players : /\ HasRoom(State, players[a].current_room) /\ ~rooms[players[a].current_room].visited /\ rooms[players[a].current_room].items # <<>> /\ rooms[players[a].current_room].exits # <<>> /\ ProcessCommand(State, a, <<"look">>).command_response = RoomText(players[a].current_room) /\ ProcessCommand(State, a, <<"look">>).gs.rooms[players[a].current_room].visited

\* C18 as stated: for an item X of the player's inventory and an item Y of
\* the player's room or inventory, use X on Y and use X with Y dispatch a
\* use_item event that carries X as item1 and Y as item2, and when no handler
\* responds to it the answer is "You can't use the X with the Y."
C18_AsStated ==
    \A a \in DOMAIN players : \A x \in Members(players[a].inventory) : \A word \in {"on", "with"} :
        LET room_id == players[a].current_room
        IN  HasRoom(State, room_id) =>
                \A y \in Members(rooms[room_id].items) \cup Members(players[a].inventory) :
                    LET done == ProcessCommand(State, a, <<"use", items[x].name, word, items[y].name>>)
                        trace == done.gs.trace
                    IN  (/\ PlayerGetItem(State, a, items[x].name) = x
                         /\ RoomGetItem(State, room_id, items[y].name) \in {y, None}
                         /\ RoomGetItem(State, room_id, items[y].name) = None => PlayerGetItem(State, a, items[y].name) = y) =>
                            /\ \E k \in EventsAt(trace, "use_item") : trace[k].data = [player_address |-> a, item1_name |-> items[x].name, item1 |-> x, item2_name |-> items[y].name, item2 |-> y]
                            /\ (\A k \in EventsAt(trace, "use_item") : trace[k].responses = <<>>) => done.command_response = "You can't use the " \o items[x].name \o " with the " \o items[y].name \o "."

\* C19 as stated: for every item X of the player's room or inventory, look at
\* X answers X's description and dispatches examine_item for X, as look X does
C19_AsStated ==
    \A a \in DOMAIN players :
        LET room_id == players[a].current_room
        IN  HasRoom(State, room_id) =>
                \A x \in Members(rooms[room_id].items) \cup Members(players[a].inventory) :
                    LET done == ProcessCommand(State, a, <<"look", "at", items[x].name>>)
                        plain == ProcessCommand(State, a, <<"look", items[x].name>>)
                    IN  /\ done.command_response = plain.command_response
                        /\ EventsAt(plain.gs.trace, "examine_item") # {} => EventsAt(done.gs.trace, "examine_item") # {}
                        /\ (RoomGetItem(State, room_id, items[x].name) = x \/ (RoomGetItem(State, room_id, items[x].name) = None /\ PlayerGetItem(State, a, items[x].name) = x)) =>
                                /\ done.command_response = items[x].description
                                /\ \E k \in EventsAt(done.gs.trace, "examine_item") : done.gs.trace[k].data.item = x

\* C20: go d with a direction dispatches one attempt_move event, for the
\* sender, the direction and the sender's room, directly after the command
\* event and before anything else; when one of its responses begins with
\* "BLOCK:" the sender's room and moves stay as they were, no player_moved and
\* no look_room event is dispatched, no room changes (none becomes visited), and
\* the command result is the first such response without the prefix
C20_BlockedMove ==
    \A a \in Senders : \A d \in (Directions \cup {"NORTH"}) \ Prepositions :
        LET done == ProcessCommand(State, a, <<"go", d>>)
            trace == done.gs.trace
            blocks == SelectSeq(AttemptResponses(done), LAMBDA r : StartsWith(r, "BLOCK:"))
        IN  /\ Cardinality(EventsAt(trace, "attempt_move")) = 1
            /\ \A k \in EventsAt(trace, "attempt_move") :
                    /\ trace[k].data = [player_address |-> a, direction |-> Lower(d), from_room |-> RoomOf(State, a)]
                    /\ k - 1 \in EventsAt(trace, "command")
                    /\ \A j \in EventsAt(trace, "player_moved") \cup EventsAt(trace, "look_room") : j > k /\ trace[j].started >= k
            /\ blocks # <<>> =>
                    /\ RoomOf(done.gs, a) = RoomOf(State, a)
                    /\ MovesOf(done.gs, a) = MovesOf(State, a)
                    /\ EventsAt(trace, "player_moved") = {}
                    /\ EventsAt(trace, "look_room") = {}
                    /\ done.gs.rooms = rooms
                    /\ a \in DOMAIN players => Left(done) = State
                    /\ done.command_response = SubSeq(blocks[1], Len("BLOCK:") + 1, Len(blocks[1]))

\* A player stands in the hall while the sealed flag is set and the vault,
\* to which the exit north leads, has not been visited: go north is blocked
C20_Witness == \E a \in DOMAIN players : /\ players[a].current_room = "hall" /\ Truthy(GetFlag(State, "sealed")) /\ DictHas(rooms["hall"].exits, "north") /\ ~rooms[DictGet(rooms["hall"].exits, "north")].visited /\ ProcessCommand(State, a, <<"go", "north">>).command_response = "The way is sealed."

C22_AsStated ==
    \A a \in DOMAIN players :
        HasRoom(State, players[a].current_room) =>
            \A d \in ExitKeys(a) :
                LET done == ProcessCommand(State, a, <<"go", d>>)
                    target == DictGet(rooms[players[a].current_room].exits, d)
                IN  (HasRoom(State, target) /\ SelectSeq(AttemptResponses(done), LAMBDA r : StartsWith(r, "BLOCK:")) = <<>>) => RoomOf(done.gs, a) = target

\* The commands that only report
Reports == {<<"quit">>, <<"exit">>, <<"score">>, <<"help">>, <<"?">>, <<"inventory">>, <<"i">>}

\* C23: quit, score, help and inventory change nothing: the player exists
\* afterwards with the room, inventory, score, moves and properties it had (a
\* first-time sender: those of a new player in the starting room), every other
\* player, all rooms, items and flags are as before, no event but the command
\* event (and a first-time sender's player_joined) is dispatched, quit and
\* score answer the player's figures, and the command that follows is answered
\* as it would have been without the report
C23_ReportsChangeNothing ==
    \A a \in Senders : \A text \in Reports :
        LET done == ProcessCommand(State, a, text)
        IN  /\ ~done.raised
            /\ a \in DOMAIN done.gs.players
            /\ a \in DOMAIN players => Left(done) = State
            /\ a \notin DOMAIN players =>
                    /\ done.gs.players[a] = [current_room |-> starting_room, inventory |-> <<>>, score |-> 0, moves |-> 0, max_inventory |-> DefaultMaxInventory, properties |-> <<>>]
                    /\ \A b \in DOMAIN players : done.gs.players[b] = players[b]
                    /\ DOMAIN done.gs.players = DOMAIN players \cup {a}
            /\ done.gs.rooms = rooms /\ done.gs.items = items /\ done.gs.global_flags = global_flags
            /\ \A k \in 1..Len(done.gs.trace) : done.gs.trace[k].event_type \in {"player_joined", "command"}
            /\ text \in {<<"quit">>, <<"exit">>} => done.command_response = "Thanks for playing! Final score: " \o ToString(ScoreOf(State, a)) \o " points in " \o ToString(MovesOf(State, a)) \o " moves."
            /\ text = <<"score">> => done.command_response = ScoreText(done.gs, a)
            /\ \A next \in {<<"look">>, <<"take", "gold">>, <<"go", "north">>} :
                    /\ ProcessCommand(Left(done), a, next).text = ProcessCommand(State, a, next).text
                    /\ Left(ProcessCommand(Left(done), a, next)) = Left(ProcessCommand(State, a, next))

\* A player who has moved and carries something quits, and is told the score
\* and the moves
C23_Witness == \E a \in DOMAIN players : /\ players[a].inventory # <<>> /\ players[a].moves > 0 /\ players[a].score > 0 /\ ProcessCommand(State, a, <<"quit">>).text = "Script executed.\n\nThanks for playing! Final score: " \o ToString(players[a].score) \o " points in " \o ToString(players[a].moves) \o " moves."

\* What a requirement of the kinds flag:, item: and in_room: asks of a sender
Met(requirement, a) ==
    CASE SubSeq(requirement, 1, 5) = "flag:" -> \E f \in DOMAIN global_flags : f = SubSeq(requirement, 6, Len(requirement)) /\ Truthy(global_flags[f])
      [] SubSeq(requirement, 1, 5) = "item:" -> \E i \in Members(InventoryOf(State, a)) : SubSeq(requirement, 6, Len(requirement)) \in NamesOf(i)
      [] SubSeq(requirement, 1, 8) = "in_room:" -> RoomOf(State, a) = SubSeq(requirement, 9, Len(requirement))

\* The item a name resolves to for a sender: the first match of the room's
\* list, else the first match of the inventory, else None
Resolved(a, n) ==
    LET here == SelectSeq(rooms[RoomOf(State, a)].items, LAMBDA i : n \in NamesOf(i))
        held == SelectSeq(InventoryOf(State, a), LAMBDA i : n \in NamesOf(i))
    IN  IF here # <<>> THEN here[1] ELSE IF held # <<>> THEN held[1] ELSE None

\* C24: when a verb-object command resolves to an item with an interaction for
\* the verb and at least one requirement of the interaction fails, wherever in
\* the list, nothing changes (score, containers, exits, flags, properties,
\* current_room) and the result is the interaction's failure_response, or
\* "You can't <verb> the <item> right now." when it has none
C24_RequirementsGuardEffects ==
    \A a \in Senders : \A n \in Names : \A v \in ObjectVerbs \cap {w[1] : w \in Interactions} :
        HasRoom(State, RoomOf(State, a)) =>
            LET target == Resolved(a, n)
                done == ProcessCommand(State, a, <<v, n>>)
            IN  (/\ target # None
                 /\ v \in DOMAIN items[target].verb_interactions
                 /\ \E k \in 1..Len(RequirementsOf(target, v)) : ~Met(RequirementsOf(target, v)[k], a)) =>
                    /\ a \in DOMAIN players => Left(done) = State
                    /\ done.gs.rooms = rooms /\ done.gs.items = items /\ done.gs.global_flags = global_flags
                    /\ ScoreOf(done.gs, a) = ScoreOf(State, a) /\ RoomOf(done.gs, a) = RoomOf(State, a) /\ InventoryOf(done.gs, a) = InventoryOf(State, a)
                    /\ done.command_response = (IF "failure_response" \in DOMAIN items[target].verb_interactions[v] THEN items[target].verb_interactions[v].failure_response ELSE "You can't " \o v \o " the " \o items[target].name \o " right now.")

\* A player who holds the coin outside the vault touches it: the first
\* requirement holds, the second fails, no failure_response is configured; and
\* the sealed flag, which the effect would set, is not set
C24_Witness == \E a \in DOMAIN players : /\ players[a].current_room = "hall" /\ Resolved(a, "coin") = "coin" /\ Met("item:gold", a) /\ ~Met("in_room:vault", a) /\ ~Met("flag:sealed", a) /\ ProcessCommand(State, a, <<"touch", "coin">>).command_response = "You can't touch the coin right now."

\* The ids a section of a configuration defines
IdsOf(section) == {Entries(section)[k][1] : k \in 1..Len(Entries(section))}

\* A configuration that can be read and in which a room lists an item id that
\* is not defined under items
DanglingItem(config) == config.file = "ok" /\ \E k \in 1..Len(Entries(config.rooms)) : \E item_id \in Members(DataGet(Entries(config.rooms)[k][2], "items", <<>>)) : item_id \notin IdsOf(config.items)

\* A configuration that can be read and in which an exit leads to a room id
\* that is not defined under rooms
DanglingExit(config) == config.file = "ok" /\ \E k \in 1..Len(Entries(config.rooms)) : \E e \in Members(DataGet(Entries(config.rooms)[k][2], "exits", <<>>)) : e[2] \notin IdsOf(config.rooms)

\* What a game never changes of its rooms, for the worlds loaded here
Layout(world_rooms) == [r \in DOMAIN world_rooms |-> [name |-> world_rooms[r].name, description |-> world_rooms[r].description, exits |-> world_rooms[r].exits, properties |-> world_rooms[r].properties]]

\* The world of the current state is the one load_game_config makes of a configuration
LoadedFrom(config) == /\ Layout(rooms) = Layout(LoadGameConfig(config).rooms) /\ DOMAIN items = DOMAIN LoadGameConfig(config).items /\ starting_room = LoadGameConfig(config).starting_room /\ event_handlers = LoadGameConfig(config).event_handlers

\* C25 as stated: a configuration with a dangling reference, an item id or an
\* exit target that is not defined, loads as the built-in fallback world: the
\* one room entrance_hall holding the one item leaflet, and that is the world
\* the game is played in
C25_AsStated ==
    \A config \in Configs :
        ((DanglingItem(config) \/ DanglingExit(config)) /\ LoadedFrom(config)) =>
            /\ LoadGameConfig(config) = CreateDefaultGame
            /\ DOMAIN rooms = {"entrance_hall"}
            /\ DOMAIN items = {"leaflet"}

\* The places, in definition order, of the rooms of a configuration whose
\* properties flag them as starting_room
FlaggedAt(config) == {k \in 1..Len(Entries(config.rooms)) : \E p \in Members(DataGet(Entries(config.rooms)[k][2], "properties", <<>>)) : p[1] = "starting_room" /\ Truthy(p[2])}

\* The starting room the rule gives for a configuration that loads
RuleStartingRoom(config) ==
    IF FlaggedAt(config) # {} THEN Entries(config.rooms)[CHOOSE k \in FlaggedAt(config) : \A j \in FlaggedAt(config) : k <= j][1]
    ELSE IF Entries(config.rooms) # <<>> THEN Entries(config.rooms)[1][1]
    ELSE "entrance_hall"

\* C26: the starting room of a world loaded from a configuration is the first
\* room, in definition order, whose properties flag it as starting_room, else
\* the first room defined, else entrance_hall; a sender without a Player gets
\* one in the starting room on first contact, whatever is sent; and in the
\* fallback world the starting room is the room entrance_hall of the world,
\* where a new player's first look is answered with the room
C26_StartingRoom ==
    /\ \A config \in Configs : (LoadedFrom(config) /\ ~LoadRaises(config)) => starting_room = RuleStartingRoom(config)
    /\ \A config \in Configs : (LoadedFrom(config) /\ LoadRaises(config)) =>
            /\ starting_room = "entrance_hall"
            /\ DOMAIN rooms = {"entrance_hall"}
            /\ \A a \in Senders \ DOMAIN players :
                    /\ ~ProcessCommand(State, a, <<"look">>).raised
                    /\ ProcessCommand(State, a, <<"look">>).command_response = RoomText("entrance_hall")
    /\ \A a \in Senders \ DOMAIN players : \A text \in {<<>>, <<"score">>, <<"dance">>, <<"look", "lamp">>} :
            ProcessCommand(State, a, text).gs.players[a] = [current_room |-> starting_room, inventory |-> <<>>, score |-> 0, moves |-> 0, max_inventory |-> DefaultMaxInventory, properties |-> <<>>]

\* In the world whose second room is the first flagged one, a player has been
\* created, in that room, and has not moved
C26_Witness == /\ LoadedFrom(FlaggedConfig) /\ FlaggedAt(FlaggedConfig) = {2, 3} /\ starting_room = "den" /\ \E a \in DOMAIN players : players[a].current_room = "den" /\ players[a].moves = 0

\* The interactions of the main world that set the flag sealed, as commands,
\* with what they answer when their effects are applied
Sealing == {[text |-> <<"push", "statue">>, response |-> "The statue grinds forward."], [text |-> <<"touch", "coin">>, response |-> "You touch the coin."]}

\* C27: a flag that is absent from the flag table reads as false for every
\* sender: a flag: requirement on it fails, and pull statue, which requires
\* flag:sealed, is refused to whoever stands by the statue; and once the
\* interaction of one sender has set sealed through its set_flag effect, the
\* flag is in the one table of the world, the requirement holds for the other
\* sender, and that sender's pull statue, in the statue's room, is carried out
C27_FlagsGlobal ==
    /\ \A a \in Senders : \A f \in {"sealed", "has_key", "chest_open"} :
            f \notin DOMAIN global_flags =>
                /\ ~CheckRequirement(State, a, "flag:" \o f)
                /\ (f = "sealed" /\ HasRoom(State, RoomOf(State, a)) /\ Resolved(a, "statue") = "statue") =>
                        /\ ProcessCommand(State, a, <<"pull", "statue">>).command_response = "It will not move."
                        /\ ProcessCommand(State, a, <<"pull", "statue">>).gs.global_flags = global_flags
    /\ \A a \in Senders : \A s \in Sealing :
            LET done == ProcessCommand(State, a, s.text)
            IN  done.command_response = s.response =>
                    /\ "sealed" \in DOMAIN done.gs.global_flags /\ Truthy(done.gs.global_flags["sealed"])
                    /\ \A b \in Senders \ {a} :
                            LET next == ProcessCommand(Left(done), b, <<"pull", "statue">>)
                            IN  /\ CheckRequirement(done.gs, b, "flag:sealed")
                                /\ RoomOf(done.gs, b) = "hall" =>
                                        /\ next.command_response = "You pull the statue."
                                        /\ ~Truthy(next.gs.global_flags["sealed"])

\* A player holds the coin in the vault and sealed has never been set:
\* touching the coin there sets it, for a sender who stands by the statue
C27_Witness ==
    \E a \in DOMAIN players :
        /\ players[a].current_room = "vault"
        /\ "sealed" \notin DOMAIN global_flags
        /\ LET done == ProcessCommand(State, a, <<"touch", "coin">>)
           IN  /\ done.command_response = "You touch the coin."
               /\ \E b \in Senders \ {a} :
                      /\ RoomOf(State, b) = "hall"
                      /\ ProcessCommand(Left(done), b, <<"pull", "statue">>).command_response = "You pull the statue."

\* C28: commands are processed one after the other, each to its end.  When two
\* senders stand in one room and both send take for a name that resolves
\* there to one item that can be taken, in either order, the first take
\* succeeds and the item is in that sender's inventory and nowhere else; the
\* second, no other item of the room answering to the name, is answered
\* "There is no '<name>' here." and changes nothing
C28_OneTakeWins ==
    \A a \in Senders : \A b \in Senders \ {a} : \A n \in Names :
        LET room_id == RoomOf(State, a)
            item == RoomGetItem(State, room_id, n)
            first == ProcessCommand(State, a, <<"take", n>>)
            second == ProcessCommand(Left(first), b, <<"take", n>>)
        IN  (/\ HasRoom(State, room_id) /\ RoomOf(State, b) = room_id
             /\ item # None /\ items[item].can_take
             /\ Len(InventoryOf(State, a)) < DefaultMaxInventory
             /\ \A j \in Members(rooms[room_id].items) \ {item} : n \notin NamesOf(j)) =>
                /\ first.command_response = "Taken: " \o items[item].name \o "."
                /\ second.command_response = "There is no '" \o n \o "' here."
                /\ InventoryOf(second.gs, a) = Append(InventoryOf(State, a), item)
                /\ InventoryOf(second.gs, b) = InventoryOf(State, b)
                /\ ScoreOf(second.gs, a) = ScoreOf(State, a) + 5
                /\ ScoreOf(second.gs, b) = ScoreOf(State, b)
                /\ \A r \in DOMAIN rooms : item \notin Members(second.gs.rooms[r].items)
                /\ \A c \in DOMAIN second.gs.players \ {a} : item \notin Members(second.gs.players[c].inventory)
                /\ second.gs.rooms = first.gs.rooms /\ second.gs.global_flags = first.gs.global_flags
                /\ b \in DOMAIN players => Left(second) = Left(first)
                /\ EventsAt(second.gs.trace, "item_taken") = {}

\* Both senders have a Player, they stand in the same room, one already with
\* something in hand, and an item that can be taken lies there
C28_Witness ==
    /\ Senders \subseteq DOMAIN players
    /\ \E a \in Senders : \E b \in Senders \ {a} :
        /\ players[a].current_room = players[b].current_room
        /\ players[a].inventory # <<>>
        /\ \E i \in Members(rooms[players[a].current_room].items) :
            /\ items[i].can_take
            /\ ProcessCommand(State, a, <<"take", items[i].name>>).command_response
                   = "Taken: " \o items[i].name \o "."

\* The items of a list that answer to a name, in the order of the list
Answering(list, n) == SelectSeq(list, LAMBDA i : n \in NamesOf(i))

\* C29: a verb-object command looks for the name among the items of the
\* current room and only then in the sender's inventory, so that an item of
\* the room hides an item in hand with the same name or alias.  When neither
\* holds a match the answer is "There is no '<name>' here."; when the item
\* found has no interaction for the verb it is "You can't <verb> the <item>.";
\* and in both cases nothing changes.  When the item found has the
\* interaction, the answer is neither of the two
C29_RoomShadowsInventory ==
    \A a \in Senders : \A n \in Names : \A v \in ObjectVerbs \cap ({w[1] : w \in Interactions} \cup {"shake"}) :
        HasRoom(State, RoomOf(State, a)) =>
            LET here == Answering(rooms[RoomOf(State, a)].items, n)
                held == Answering(InventoryOf(State, a), n)
                target == IF here # <<>> THEN here[1] ELSE IF held # <<>> THEN held[1] ELSE None
                done == ProcessCommand(State, a, <<v, n>>)
                nothing == "There is no '" \o n \o "' here."
                unchanged == /\ a \in DOMAIN players => Left(done) = State
                             /\ done.gs.rooms = rooms /\ done.gs.items = items /\ done.gs.global_flags = global_flags
                             /\ \A b \in DOMAIN players : done.gs.players[b] = players[b]
                             /\ InventoryOf(done.gs, a) = InventoryOf(State, a) /\ ScoreOf(done.gs, a) = ScoreOf(State, a) /\ RoomOf(done.gs, a) = RoomOf(State, a)
            IN  /\ ~done.raised
                /\ target = None => done.command_response = nothing /\ unchanged
                /\ (target # None /\ v \notin DOMAIN items[target].verb_interactions) =>
                        done.command_response = "You can't " \o v \o " the " \o items[target].name \o "." /\ unchanged
                /\ (target # None /\ v \in DOMAIN items[target].verb_interactions) =>
                        /\ done.command_response # nothing
                        /\ \A i \in DOMAIN items : done.command_response # "You can't " \o v \o " the " \o items[i].name \o "."

\* A player in the hall with the coin in hand, the statue standing there: gold
\* names both, the coin can be touched and the statue cannot, and touch gold
\* is answered for the statue; push gold moves the statue; and touch ghost
\* finds nothing
C29_Witness ==
    \E a \in DOMAIN players :
        /\ players[a].current_room = "hall"
        /\ Answering(rooms.hall.items, "gold") = <<"statue">>
        /\ Answering(players[a].inventory, "gold") = <<"coin">>
        /\ "touch" \in DOMAIN items.coin.verb_interactions
        /\ ProcessCommand(State, a, <<"touch", "gold">>).command_response = "You can't touch the statue."
        /\ ProcessCommand(State, a, <<"push", "gold">>).command_response = "The statue grinds forward."
        /\ ProcessCommand(State, a, <<"touch", "ghost">>).command_response = "There is no 'ghost' here."

\* The longest command text the parser is given here, in tokens
MaxTokens == 3

\* The words the command texts are made of: verbs that keep prepositions and
\* one that does not, prepositions of both kinds, names, words in capitals
Words == {"look", "throw", "take", "at", "in", "from", "coin", "Key", "NORTH"}

\* Every command text of at most MaxTokens words
Utterances == UNION {[1..n -> Words] : n \in 0..MaxTokens}

RECURSIVE Without(_, _)
\* The words of a list that are not in a set, in order
Without(words, stop) ==
    IF words = <<>> THEN <<>>
    ELSE IF Head(words) \in stop THEN Without(Tail(words), stop)
    ELSE <<Head(words)>> \o Without(Tail(words), stop)

\* The rule of the parser over a sequence of tokens: no token, no verb; else
\* the verb is the first token in lower case, and the args are all the other
\* tokens when the verb keeps prepositions, two tokens or more follow it and
\* one of them is a preposition the verb keeps, and the other tokens without
\* the prepositions otherwise
Rule(tokens) ==
    IF Len(tokens) = 0 THEN [verb |-> None, args |-> <<>>]
    ELSE LET verb == Lower(tokens[1])
             rest == [k \in 1..(Len(tokens) - 1) |-> tokens[k + 1]]
             keeps == /\ verb \in {"put", "throw", "look", "listen", "talk", "give", "show"}
                      /\ Len(rest) >= 2
                      /\ Members(rest) \cap SpecialCombinations[verb] # {}
         IN  [verb |-> verb, args |-> IF keeps THEN rest ELSE Without(rest, Prepositions)]

\* A command text with every token in lower case
Lowered(tokens) == [k \in 1..Len(tokens) |-> Lower(tokens[k])]

\* The parser follows the rule over the tokens in lower case, for every text
RuleOfLowered == \A tokens \in Utterances : ParseCommandWithPrepositions(tokens) = Rule(Lowered(tokens))

\* The parser follows the rule over the tokens as they are sent, for every text
RuleOfSent == \A tokens \in Utterances : ParseCommandWithPrepositions(tokens) = Rule(tokens)

\* C30: the parser equals the rule for every token sequence, the tokens taken
\* in lower case, all of them and not the verb alone: an empty text gives no
\* verb and no args; otherwise the verb is the first token and the args are
\* all the other tokens in order when the verb keeps prepositions, at least
\* two tokens follow and one of them is a preposition that verb keeps, and the
\* other tokens in order without the members of the preposition set in every
\* other case.  The parser gives a result for every text, and the command
\* event of every command carries the verb and the args of the rule
C30_ParserRule ==
    /\ RuleOfLowered
    /\ \A a \in Senders : \A text \in Commands \cup {<<"look", "in", "coin">>, <<"throw", "ball", "at", "statue">>, <<"take", "Key", "from", "chest">>} :
            LET done == ProcessCommand(State, a, text)
                parsed == ParseCommandWithPrepositions(text)
            IN  /\ parsed.verb = None <=> text = <<>>
                /\ Len(parsed.args) <= Len(text)
                /\ text # <<>> => \A k \in EventsAt(done.gs.trace, "command") :
                        /\ done.gs.trace[k].data.verb = Rule(Lowered(text)).verb
                        /\ done.gs.trace[k].data.args = Rule(Lowered(text)).args
                /\ text = <<>> => EventsAt(done.gs.trace, "command") = {} /\ ~done.raised

\* C30 as stated: the verb is the first token in lower case and the args are
\* the other tokens as they were sent, kept or filtered by the rule
C30_AsStated ==
    /\ RuleOfSent
    /\ \A a \in Senders : \A text \in Commands :
            text # <<>> => \A k \in EventsAt(ProcessCommand(State, a, text).gs.trace, "command") :
                ProcessCommand(State, a, text).gs.trace[k].data.args = Rule(text).args

\* A player sends look at coin, which keeps its preposition, look at, which
\* has too few words to keep it, use coin on statue, which loses it, and go
\* NORTH, which arrives in lower case
C30_Witness ==
    \E a \in DOMAIN players :
        LET Sent(text) == {ProcessCommand(State, a, text).gs.trace[k].data.args : k \in EventsAt(ProcessCommand(State, a, text).gs.trace, "command")}
        IN  /\ Sent(<<"look", "at", "coin">>) = {<<"at", "coin">>}
            /\ Sent(<<"look", "at">>) = {<<>>}
            /\ Sent(<<"use", "coin", "on", "statue">>) = {<<"coin", "statue">>}
            /\ Sent(<<"go", "NORTH">>) = {<<"north">>}

\* The ids of the handlers registered on items
ItemHandlerIds == UNION {{items[i].event_handlers[k].id : k \in 1..Len(items[i].event_handlers)} : i \in DOMAIN items}

\* A state with no handler registered on any item
Stripped(gs) == [gs EXCEPT !.items = [i \in DOMAIN gs.items |-> [gs.items[i] EXCEPT !.event_handlers = <<>>]]]

\* C31: no dispatch of any command consults a handler registered on an item:
\* every handler consulted is a global one or one of the room the event's
\* player stands in, the handlers of the items stay as they are, and the
\* response, the events dispatched and the state left are those of the same
\* world without the item handlers
C31_ItemHandlersUnreached ==
    \A a \in Senders : \A text \in Commands :
        LET done == ProcessCommand(State, a, text)
            bare == ProcessCommand(Stripped(State), a, text)
            trace == done.gs.trace
        IN  /\ \A k \in 1..Len(trace) : \A c \in 1..Len(trace[k].consulted) :
                    /\ trace[k].consulted[c].id \notin ItemHandlerIds
                    /\ trace[k].consulted[c].id \in Members(Ids(event_handlers)) \cup UNION {Members(Ids(rooms[r].event_handlers)) : r \in DOMAIN rooms}
                    /\ trace[k].consulted[c].scope \in {"global", trace[k].room}
            /\ done.text = bare.text
            /\ Stripped(done.gs) = bare.gs
            /\ \A i \in DOMAIN items : done.gs.items[i].event_handlers = items[i].event_handlers

\* A player in the hall, where the ball lies, holds the coin: the ball's
\* handler has no condition, the coin's asks for attempt_move only; the player
\* sends go north, and arrives in the vault
C31_Witness ==
    \E a \in DOMAIN players :
        /\ players[a].current_room = "hall"
        /\ "ball" \in Members(rooms.hall.items) /\ items.ball.event_handlers # <<>> /\ DOMAIN items.ball.event_handlers[1].conditions = {}
        /\ "coin" \in Members(players[a].inventory) /\ items.coin.event_handlers[1].conditions.event_type = "attempt_move"
        /\ EventsAt(ProcessCommand(State, a, <<"go", "north">>).gs.trace, "attempt_move") # {}
        /\ RoomOf(ProcessCommand(State, a, <<"go", "north">>).gs, a) = "vault"

\* The exits an interaction adds: the direction and the target of every
\* add_room_exit effect that names both
Adding(i, v) == {<<ValueGet(e[2], "direction").v, ValueGet(e[2], "to_room").v>> : e \in {x \in Members(EffectsOf(i, v)) : x[1] = "add_room_exit" /\ x[2].t = "dict" /\ Truthy(ValueGet(x[2], "direction")) /\ Truthy(ValueGet(x[2], "to_room"))}}

\* The verb-object commands that succeed for a sender: the name resolves to
\* an item with an interaction for the verb whose requirements are all met
Succeeding(a) == {w \in Interactions : /\ HasRoom(State, RoomOf(State, a)) /\ Resolved(a, w[2]) # None /\ w[1] \in ObjectVerbs /\ w[1] \in DOMAIN items[Resolved(a, w[2])].verb_interactions /\ \A k \in 1..Len(RequirementsOf(Resolved(a, w[2]), w[1])) : Met(RequirementsOf(Resolved(a, w[2]), w[1])[k], a)}

\* The keys of a room's exits in a state
KeysOf(gs, r) == {gs.rooms[r].exits[k][1] : k \in 1..Len(gs.rooms[r].exits)}

\* go d by b, sent in a state, is not blocked and takes b to the room r
Travels(gs, b, d, r) ==
    LET goes == ProcessCommand(gs, b, <<"go", d>>)
    IN  SelectSeq(AttemptResponses(goes), LAMBDA s : StartsWith(s, "BLOCK:")) = <<>> =>
            /\ RoomOf(goes.gs, b) = r
            /\ MovesOf(goes.gs, b) = MovesOf(gs, b) + 1

C33_AsStated ==
    \A config \in Configs :
        (~LoadRaises(config) /\ LoadedFrom(config) /\ players = <<>>) =>
            \A i \in DOMAIN items : Cardinality(RoomPlaces(i)) <= 1

\* A state without the handlers whose script fails
Unfailing(gs) ==
    [gs EXCEPT !.event_handlers = SelectSeq(@, LAMBDA h : ~h.script.raises),
               !.rooms = [r \in DOMAIN gs.rooms |-> [gs.rooms[r] EXCEPT !.event_handlers = SelectSeq(@, LAMBDA h : ~h.script.raises)]]]

\* C34: a handler whose script fails contributes the response "Something
\* mysterious happens..." and nothing else: in every dispatch of every command
\* all global handlers and then all handlers of the player's room are
\* consulted in order, those after a failing one included; each failing
\* handler that fired has that response at its place among the responses; the
\* command is executed, its result and the state it leaves being those of the
\* same world without the failing handlers; and the response returned is the
\* responses to the command event followed by that result
C34_FailureContained ==
    \A a \in Senders : \A text \in Commands :
        LET done == ProcessCommand(State, a, text)
            calm == ProcessCommand(Unfailing(State), a, text)
            trace == done.gs.trace
        IN  /\ ~done.raised
            /\ \A k \in 1..Len(trace) :
                    LET e == trace[k]
                        room_handlers == IF "player_address" \in DOMAIN e.data /\ e.room \in DOMAIN rooms THEN rooms[e.room].event_handlers ELSE <<>>
                    IN  /\ Ids(e.consulted) = Ids(event_handlers) \o Ids(room_handlers)
                        /\ \A c \in 1..Len(e.consulted) :
                                LET h == (event_handlers \o room_handlers)[c]
                                IN  /\ e.consulted[c].fired <=> ConditionsHold(h, e, e.consulted[c])
                                    /\ (e.consulted[c].fired /\ h.script.raises) => e.consulted[c].response = "Something mysterious happens..."
                        /\ e.responses = SelectSeq([c \in 1..Len(e.consulted) |-> e.consulted[c].response], LAMBDA r : r # "")
            /\ Len(calm.gs.trace) = Len(trace)
            /\ \A k \in 1..Len(trace) : trace[k].event_type = calm.gs.trace[k].event_type /\ trace[k].data = calm.gs.trace[k].data
            /\ done.command_response = calm.command_response
            /\ Unfailing(Left(done)) = Left(calm)
            /\ text # <<>> => done.text = Glue(Kept(FragmentsOf(done))) /\ Cardinality(EventsAt(trace, "command")) = 1

\* A player stands in the field with the stone: the global handler and the
\* field's handler both fail on the command event, the handlers after them
\* answer, and look is answered
C34_Witness ==
    \E a \in DOMAIN players :
        /\ players[a].current_room = "field" /\ PlayerHasItem(State, a, "stone")
        /\ ProcessCommand(State, a, <<"look">>).event_responses = <<"Something mysterious happens...", "The wind blows.", "Something mysterious happens...", "Grass rustles.">>
        /\ ProcessCommand(State, a, <<"look">>).command_response = ProcessCommand(Unfailing(State), a, <<"look">>).command_response
        /\ ProcessCommand(State, a, <<"look">>).command_response # ""

\* No handler is registered anywhere in the world
NoHandlers == event_handlers = <<>> /\ (\A r \in DOMAIN rooms : rooms[r].event_handlers = <<>>) /\ (\A i \in DOMAIN items : items[i].event_handlers = <<>>)

\* C35: in a world without handlers, a command of one sender leaves every
\* other player as it was: current_room, inventory, score, moves, properties
\* and capacity; and the only player it can add is the sender's own
C35_PlayersApart ==
    NoHandlers =>
        \A a \in Senders : \A text \in Commands :
            LET done == ProcessCommand(State, a, text)
            IN  /\ DOMAIN done.gs.players = DOMAIN players \cup {a}
                /\ \A b \in DOMAIN players \ {a} : done.gs.players[b] = players[b]

\* Two players, one of them wise with the scroll read, the other in the hall
\* with the coin, which it throws: the thrower is carried to the vault
C35_Witness ==
    /\ NoHandlers
    /\ \E a \in DOMAIN players : \E b \in DOMAIN players \ {a} :
        /\ DOMAIN players[b].properties # {} /\ players[b].score > 0
        /\ players[a].current_room = "hall" /\ PlayerHasItem(State, a, "coin")
        /\ RoomOf(ProcessCommand(State, a, <<"throw", "coin">>).gs, a) = "vault"

\* C36 as stated: in every reachable state every player stands in a room of
\* the world
C36_AsStated == \A a \in DOMAIN players : players[a].current_room \in DOMAIN rooms

\* C37 as stated: the players table holds only the addresses of senders, and
\* player_joined has been dispatched for no other address: an event without
\* a player address creates no Player
C37_AsStated == DOMAIN players \subseteq Senders /\ DOMAIN joined \subseteq Senders

\* A command text is a go that passes through an exit of the sender's room:
\* the verb is go or move, a direction reaches cmd_go, no handler blocks the
\* attempt, and the direction is an exit key of the room the sender is in
Passes(a, text, done) ==
    /\ VerbOf(text) \in GoVerbs
    /\ ParseCommandWithPrepositions(text).args # <<>>
    /\ SelectSeq(AttemptResponses(done), LAMBDA s : StartsWith(s, "BLOCK:")) = <<>>
    /\ HasRoom(State, RoomOf(State, a))
    /\ DictHas(rooms[RoomOf(State, a)].exits, ParseCommandWithPrepositions(text).args[1])

\* C38 as stated: a command adds one to the sender's moves when it is a go
\* that changes the sender's room, and leaves moves as it was otherwise
C38_AsStated ==
    \A a \in DOMAIN players : \A text \in Commands :
        LET done == ProcessCommand(State, a, text)
        IN  MovesOf(done.gs, a) = MovesOf(State, a) + (IF VerbOf(text) \in GoVerbs /\ RoomOf(done.gs, a) # RoomOf(State, a) THEN 1 ELSE 0)

\* C38: a new player has no moves; a command adds exactly one to the sender's
\* moves when it is a go that passes through an exit of the sender's room,
\* whether the exit leads to another room or back into the same, and leaves
\* the sender's moves as they were in every other case: a go that is
\* rejected or blocked, an interaction with teleport_to, any other command;
\* and no command changes the moves of another player
C38_MovesCount ==
    \A a \in Senders : \A text \in Commands :
        LET done == ProcessCommand(State, a, text)
        IN  /\ a \notin DOMAIN players => MovesOf(State, a) = 0
            /\ MovesOf(done.gs, a) = MovesOf(State, a) + (IF Passes(a, text, done) THEN 1 ELSE 0)
            /\ \A b \in DOMAIN players \ {a} : MovesOf(done.gs, b) = MovesOf(State, b)
            /\ (VerbOf(text) \notin GoVerbs /\ RoomOf(done.gs, a) # RoomOf(State, a)) => text \in Succeeding(a) /\ \E e \in Members(EffectsOf(Resolved(a, text[2]), text[1])) : e[1] = "teleport_to"

\* One player has been carried to the hut by the stone without a move, another
\* stands in the field with one move, having gone round it or come back
C38_Witness ==
    \E a \in DOMAIN players : \E b \in DOMAIN players \ {a} :
        /\ players[a].current_room = "hut" /\ players[a].moves = 0
        /\ players[b].current_room = "field" /\ players[b].moves = 0
        /\ MovesOf(ProcessCommand(State, b, <<"go", "round">>).gs, b) = 1
        /\ RoomOf(ProcessCommand(State, b, <<"go", "round">>).gs, b) = "field"
        /\ MovesOf(ProcessCommand(State, b, <<"go", "west">>).gs, b) = 0

\* The flags an interaction sets and the values it gives them
Setting(i, v) == UNION {IF e[2].t = "dict" THEN Members(e[2].v) ELSE {<<e[2].v, PyBool(TRUE)>>} : e \in {x \in Members(EffectsOf(i, v)) : x[1] = "set_flag"}}

\* C39 as stated: when an interaction that succeeds sets a flag, flag_changed
\* is dispatched for that flag if and only if the value get_flag gave before
\* differs from the value set; a flag never set that is set to false gives
\* no event
C39_AsStated ==
    \A a \in DOMAIN players : \A w \in Succeeding(a) : \A x \in Setting(Resolved(a, w[2]), w[1]) :
        LET trace == ProcessCommand(State, a, w).gs.trace
        IN  (\E k \in EventsAt(trace, "flag_changed") : trace[k].data.flag_name = x[1]) <=> ~PyEq(GetFlag(State, x[1]), x[2])

====
